---- MODULE Spec2Model ----
(***************************************************************************)
(* Model of the card query engine of magpie and of its Discord front end:  *)
(*   magpie_engine/src/data/cards.rs   Card, Costs, Traits                 *)
(*   magpie_engine/src/data/sets.rs    SetCode, Set                        *)
(*   magpie_engine/src/query.rs        Filters, to_fn, QueryBuilder        *)
(*   magpie_engine/src/fetch/*.rs      fetch_aug_set, _desc_set, _cti_set  *)
(*   magpie_tutor/src/query/lexer.rs   tokenize_query, match_sym           *)
(*   magpie_tutor/src/query/parser.rs  QueryParser, TryFrom<Keyword>       *)
(*   magpie_tutor/src/lib.rs           QUERY_REGEX, COST_REGEX, CACHE      *)
(*   magpie_tutor/src/engine.rs        FilterExt, CostType                 *)
(*   magpie_tutor/src/fuzzy.rs         fuzzy_best, lev                     *)
(*   magpie_tutor/src/search.rs        process_search, update_cache        *)
(*                                                                         *)
(* The specifications share the variables:                                 *)
(*   Spec        a QueryBuilder: construction, add_filter, query           *)
(*   SpecFn      one Filters value built up and compiled by to_fn          *)
(*   SpecCall    a compiled closure called on cards                        *)
(*   SpecLex     tokenize_query, one regex capture per step, on typed text *)
(*   SpecParse   QueryParser::gen_ast on a token vector pushed by a caller *)
(*   SpecDsl     text -> tokens -> keywords -> filters on structured text  *)
(*   SpecKw      Filters::try_from on one keyword of a string field        *)
(*   SpecFuzzy   fuzzy_best on a collected candidate list                  *)
(*   SpecSetCode SetCode::new on a typed text                              *)
(*   SpecFetch   the three fetchers on a fetched sheet                     *)
(*   SpecCache   the portrait cache: process_search, update_cache, time    *)
(***************************************************************************)
EXTENDS Integers, Sequences, FiniteSets, TLC

VARIABLES
    sets,        \* QueryBuilder.sets: the sequence of sets (each a sequence of cards)
    filters,     \* QueryBuilder.filters: the descriptors, in insertion order
    funcs,       \* QueryBuilder.funcs: the compiled predicates, in insertion order
    bstate,      \* "none" before construction, "built", "queried" once query(self) ran
    qres,        \* the Query returned by query(): [cards, filters]
    flt,         \* SpecFn: the Filters value under construction
    fn,          \* SpecFn: to_fn(flt), the boxed closure
    query,       \* tokenize_query's argument: a sequence of characters
    pc,          \* position of the DSL pipeline
    pos,         \* captures_iter: where the next search starts (1-based)
    last_match,  \* captures_iter: end of the last reported match, 0 for None
    tokens,      \* the token vector (lexer output / parser input)
    lexres,      \* result of tokenize_query
    ast,         \* result of QueryParser::gen_ast
    compiled,    \* result of Filters::try_from over the keywords
    search_term, \* fuzzy_best's argument value
    candidates,  \* fuzzy_best's argument vec, each item as the string f gives for it
    threshold,   \* fuzzy_best's argument threshold, a fraction [num, den]
    fres,        \* what fuzzy_best returned: [returned, best]
    evals,       \* SpecFn: the calls made to the closure fn, as [card, result]
    code,        \* SetCode::new's argument: a sequence of characters
    setcode,     \* what SetCode::new returned
    sheet,       \* the fetched source data: [sigils, cards]
    fetched,     \* the Set a fetcher returned: [by, cards, sigils_description]
    cache,       \* CACHE: card hash -> Option of the entry's expire_date
    now,         \* current_epoch()
    embeds,      \* process_search: the thumbnail chosen for each card of the reply
    attachments  \* process_search: the portraits generated for the reply

vars == <<sets, filters, funcs, bstate, qres, flt, fn,
          query, pc, pos, last_match, tokens, lexres, ast, compiled,
          search_term, candidates, threshold, fres, evals,
          code, setcode, sheet, fetched, cache, now, embeds, attachments>>

engineVars == <<sets, filters, funcs, bstate, qres>>
fnVars     == <<flt, fn, evals>>
dslVars    == <<query, pc, pos, last_match, tokens, lexres, ast, compiled>>
fuzzyVars  == <<search_term, candidates, threshold, fres>>
dataVars   == <<code, setcode, sheet, fetched>>
cacheVars  == <<cache, now, embeds, attachments>>

(***************************************************************************)
(* Bounds of the model.                                                    *)
(***************************************************************************)
MaxSets == 2
MaxFilters == 2
MaxN == 2
FilterDepth == 2
MaxQuery == 4
MaxTokens == 4
MaxNum == 11
MaxCost == 4
MaxCand == 2
MaxValue == 2
MaxCode == 4
MaxSigils == 2
MaxCards == 1
MaxEvals == 3
MaxReply == 2
MaxTime == 2

Range(s) == {s[i] : i \in 1..Len(s)}

(***************************************************************************)
(* Attribute model: Attack, Card, Set (magpie_engine/src/data/cards.rs).   *)
(* An enum value is a record with a tag and one field per payload.         *)
(***************************************************************************)
AttackNum(a)  == [tag |-> "Num", num |-> a, sp |-> "", str |-> ""]
AttackSp(sp)  == [tag |-> "SpAtk", num |-> 0, sp |-> sp, str |-> ""]
AttackStr(s)  == [tag |-> "Str", num |-> 0, sp |-> "", str |-> s]

\* Option<T>: None is the empty sequence, Some(x) the sequence of x alone
None    == << >>
Some(x) == << x >>

\* struct MoxCount and its Default
MoxCount_default ==
    [o |-> 0, g |-> 0, b |-> 0, y |-> 0, r |-> 0, e |-> 0, p |-> 0, k |-> 0]

\* struct MagpieCosts (magpie_tutor/src/engine.rs) and its Default
MagpieCosts_default == [shattered_count |-> None, max |-> 0, link |-> 0, gold |-> 0]

\* struct Costs; mox is the set of the Mox flags that are set
Costs(blood, bone, energy, mox, mox_count) ==
    [blood |-> blood, bone |-> bone, energy |-> energy, mox |-> mox,
     mox_count |-> mox_count, extra |-> MagpieCosts_default]
Costs_default_counted == Costs(0, 0, 0, {}, Some(MoxCount_default))
Costs_default == Costs(0, 0, 0, {}, None)

\* struct Traits; flags is the set of the TraitsFlag flags that are set
Traits(strings, flags) == [strings |-> strings, flags |-> flags]
Traits_with_empty_strings(flags) == Traits(Some(<< >>), flags)
Traits_with_flags(flags)    == Traits(None, flags)
Traits_with_string(traits)  == Traits(Some(traits), {})

Card(set, name, rarity, attack, health, costs, traits) ==
    [set |-> set, name |-> name, rarity |-> rarity, attack |-> attack,
     health |-> health, costs |-> costs, traits |-> traits]

\* The sets handed to the builder are drawn from these three.
SetStd ==
    << Card("std", "Squirrel", "SIDE", AttackNum(0), 1, None, None),
       Card("std", "Stoat", "COMMON", AttackNum(1), 2,
            Some(Costs(1, 0, 0, {}, None)), None),
       Card("std", "Mox Module", "RARE", AttackSp("MOX"), 2,
            Some(Costs(0, 0, 0, {"O", "G"}, None)),
            Some(Traits_with_flags({"CONDUCTIVE"}))),
       Card("std", "Grizzly", "RARE", AttackNum(3), 3,
            Some(Costs(3, 0, 0, {}, None)), Some(Traits_with_flags({"HARD"}))) >>
SetAug ==
    << Card("aug", "Enigma", "UNIQUE", AttackStr("?"), 0,
            Some(Costs(0, 0, 0, {"O", "G"},
                       Some([MoxCount_default EXCEPT !.o = 3, !.g = 2]))),
            Some(Traits(Some(<< <<"x">> >>), {"HARD"}))),
       Card("aug", "Urayuli", "RARE", AttackNum(2), -1,
            Some(Costs(2, 1, 0, {}, None)),
            Some(Traits_with_flags({"HARD", "BAN"}))),
       Card("aug", "Ant Queen", "UNCOMMON", AttackSp("ANT"), 1,
            Some(Costs(0, 2, 3, {}, None)),
            Some(Traits_with_string(<< <<"x">>, <<"y">> >>))) >>
SetNil == << >>

SetLibrary == {SetStd, SetAug, SetNil}

CardU == UNION {Range(s) : s \in SetLibrary}

RECURSIVE SeqsUpTo(_, _)
SeqsUpTo(S, n) ==
    IF n = 0 THEN { << >> }
    ELSE LET shorter == SeqsUpTo(S, n - 1)
         IN  shorter \cup {Append(s, x) : s \in {t \in shorter : Len(t) = n - 1}, x \in S}

(***************************************************************************)
(* Filter algebra (magpie_engine/src/query.rs).                            *)
(***************************************************************************)
QueryOrder == {"Greater", "GreaterEqual", "Equal", "LessEqual", "Less"}

FAttack(ord, n) == [kind |-> "Attack", ord |-> ord, n |-> n]
FHealth(ord, n) == [kind |-> "Health", ord |-> ord, n |-> n]
FSpAtk(sp)      == [kind |-> "SpAtk", sp |-> sp]
FStrAtk(s)      == [kind |-> "StrAtk", str |-> s]
FRarity(r)      == [kind |-> "Rarity", rarity |-> r]
FCosts(cost)    == [kind |-> "Costs", costs |-> cost]
FTraits(traits) == [kind |-> "Traits", traits |-> traits]
FExtra(filter)  == [kind |-> "Extra", ext |-> filter]
FOr(a, b)       == [kind |-> "Or", a |-> a, b |-> b]
FNot(f)         == [kind |-> "Not", f |-> f]
NoFilter        == [kind |-> "none"]

\* macro match_query_order
match_query_order_strict(ord, a, b) ==
    CASE ord = "Greater"      -> a > b
      [] ord = "GreaterEqual" -> a > b
      [] ord = "Equal"        -> a = b
      [] ord = "LessEqual"    -> a < b
      [] ord = "Less"         -> a < b

match_query_order(ord, a, b) ==
    CASE ord = "Greater"      -> a > b
      [] ord = "GreaterEqual" -> a >= b
      [] ord = "Equal"        -> a = b
      [] ord = "LessEqual"    -> a <= b
      [] ord = "Less"         -> a < b

\* enum FilterExt (magpie_tutor/src/engine.rs); t is the set of the CostType
\* flags that are set
CostType(t) == [kind |-> "CostType", t |-> t]

\* ToFilter::to_fn for FilterExt::CostType: one evaluation of the closure
FilterExt_to_fn_any(filter, c) ==
    IF c.costs # None
    THEN LET cs == c.costs[1]
         IN  \/ ("BLOOD" \in filter.t /\ cs.blood # 0)
             \/ ("BONE" \in filter.t /\ cs.bone # 0)
             \/ ("ENERGY" \in filter.t /\ cs.energy # 0)
             \/ ("MOX" \in filter.t /\ cs.mox # {})
    ELSE FALSE

FilterExt_to_fn(filter, c) ==
    IF c.costs # None
    THEN LET cs == c.costs[1]
         IN  ~ \/ ("BLOOD" \in filter.t /\ cs.blood = 0)
               \/ ("BONE" \in filter.t /\ cs.bone = 0)
               \/ ("ENERGY" \in filter.t /\ cs.energy = 0)
               \/ ("MOX" \in filter.t /\ cs.mox = {})
    ELSE FALSE

\* One evaluation of the closure that Filters::to_fn boxes, on card c.
RECURSIVE apply_filter(_, _)
apply_filter_flat(f, c) ==
    CASE f.kind = "Attack" ->
            IF c.attack.tag = "Num"
            THEN match_query_order(f.ord, c.attack.num, f.n)
            ELSE FALSE
      [] f.kind = "Health" -> match_query_order(f.ord, c.health, f.n)
      [] f.kind = "Rarity" -> c.rarity = f.rarity
      [] f.kind = "SpAtk"  ->
            IF c.attack.tag = "SpAtk" THEN c.attack.sp = f.sp ELSE FALSE
      [] f.kind = "StrAtk" ->
            IF c.attack.tag = "Str" THEN c.attack.str = f.str ELSE FALSE
      [] f.kind = "Costs"  -> c.costs = f.costs
      [] f.kind = "Traits" -> c.traits = f.traits
      [] f.kind = "Extra"  -> FilterExt_to_fn(f.ext, c)
      [] f.kind = "Or"     -> apply_filter(f.a, c) \/ apply_filter(f.b, c)
      [] f.kind = "Not"    -> apply_filter(f.f, c)

apply_filter(f, c) ==
    CASE f.kind = "Attack" ->
            IF c.attack.tag = "Num"
            THEN match_query_order(f.ord, c.attack.num, f.n)
            ELSE FALSE
      [] f.kind = "Health" -> match_query_order(f.ord, c.health, f.n)
      [] f.kind = "Rarity" -> c.rarity = f.rarity
      [] f.kind = "SpAtk"  ->
            IF c.attack.tag = "SpAtk" THEN c.attack.sp = f.sp ELSE FALSE
      [] f.kind = "StrAtk" ->
            IF c.attack.tag = "Str" THEN c.attack.str = f.str ELSE FALSE
      [] f.kind = "Costs"  -> c.costs = f.costs
      [] f.kind = "Traits" -> c.traits = f.traits
      [] f.kind = "Extra"  -> FilterExt_to_fn(f.ext, c)
      [] f.kind = "Or"     -> apply_filter(f.a, c) \/ apply_filter(f.b, c)
      [] f.kind = "Not"    -> ~ apply_filter(f.f, c)

\* Filters::to_fn: the closure, as its graph over the cards of the library.
\* Name, Description, Temple, Tribe and Sigil test fields the cards of the model
\* do not carry; no specification applies to_fn to them.
to_fn(f) == [c \in CardU |-> apply_filter(f, c)]

(***************************************************************************)
(* QueryBuilder (magpie_engine/src/query.rs).                              *)
(***************************************************************************)
\* A borrowed card: the set's index in the builder and the card's index in it.
CardAt(ss, r) == ss[r[1]][r[2]]

\* self.sets.iter().flat_map(|s| &s.cards)
RECURSIVE flat_map(_, _)
flat_map_first(ss, i) ==
    IF i > Len(ss) THEN << >>
    ELSE [j \in 1..Len(ss[i]) |-> <<i, j>>]

flat_map(ss, i) ==
    IF i > Len(ss) THEN << >>
    ELSE [j \in 1..Len(ss[i]) |-> <<i, j>>] \o flat_map(ss, i + 1)

\* the body of QueryBuilder::query: filter(|c| funcs.iter().all(|f| f(c)))
query_cards_any(ss, fs) ==
    LET keep(r) == \E k \in 1..Len(fs) : fs[k][CardAt(ss, r)]
    IN  SelectSeq(flat_map(ss, 1), keep)

query_cards(ss, fs) ==
    LET keep(r) == \A k \in 1..Len(fs) : fs[k][CardAt(ss, r)]
    IN  SelectSeq(flat_map(ss, 1), keep)

NoQuery == [cards |-> << >>, filters |-> << >>]

\* The filters a caller hands to the builder.
BuilderFilters ==
    { FAttack("Greater", 0), FAttack("LessEqual", 1), FAttack("Equal", MaxN),
      FHealth("GreaterEqual", 2), FHealth("Less", 2),
      FSpAtk("MOX"), FStrAtk("?"), FRarity("RARE"),
      FNot(FAttack("Less", MaxN)), FNot(FSpAtk("MOX")),
      FOr(FAttack("Equal", 1), FSpAtk("ANT")),
      FOr(FNot(FHealth("Equal", 2)), FAttack("GreaterEqual", 3)) }

\* QueryBuilder::new
QueryBuilder_new ==
    /\ bstate = "none"
    /\ filters' = << >>
    /\ funcs' = << >>
    /\ bstate' = "built"
    /\ UNCHANGED <<sets, qres>>
    /\ UNCHANGED <<fnVars, dslVars, fuzzyVars, dataVars, cacheVars>>

\* QueryBuilder::with_filters
QueryBuilder_with_filters ==
    /\ bstate = "none"
    /\ \E fs \in SeqsUpTo(BuilderFilters, MaxFilters) :
          /\ filters' = fs
          /\ funcs' = [i \in 1..Len(fs) |-> to_fn(fs[i])]
    /\ bstate' = "built"
    /\ UNCHANGED <<sets, qres>>
    /\ UNCHANGED <<fnVars, dslVars, fuzzyVars, dataVars, cacheVars>>

QueryBuilder_add_filter_descriptor_only ==
    /\ bstate = "built"
    /\ Len(filters) < MaxFilters
    /\ \E f \in BuilderFilters : filters' = Append(filters, f)
    /\ UNCHANGED <<sets, funcs, bstate, qres>>
    /\ UNCHANGED <<fnVars, dslVars, fuzzyVars, dataVars, cacheVars>>

\* QueryBuilder::add_filter
QueryBuilder_add_filter ==
    /\ bstate = "built"
    /\ Len(filters) < MaxFilters
    /\ \E f \in BuilderFilters :
          /\ filters' = Append(filters, f)
          /\ funcs' = Append(funcs, to_fn(f))
    /\ UNCHANGED <<sets, bstate, qres>>
    /\ UNCHANGED <<fnVars, dslVars, fuzzyVars, dataVars, cacheVars>>

\* QueryBuilder::add_filter_mut
QueryBuilder_add_filter_mut ==
    /\ bstate = "built"
    /\ Len(filters) < MaxFilters
    /\ \E f \in BuilderFilters :
          /\ filters' = Append(filters, f)
          /\ funcs' = Append(funcs, to_fn(f))
    /\ UNCHANGED <<sets, bstate, qres>>
    /\ UNCHANGED <<fnVars, dslVars, fuzzyVars, dataVars, cacheVars>>

\* QueryBuilder::query.  The builder is consumed; filters and funcs keep what
\* it had accumulated.
QueryBuilder_query ==
    /\ bstate = "built"
    /\ qres' = [cards |-> query_cards(sets, funcs), filters |-> filters]
    /\ bstate' = "queried"
    /\ UNCHANGED <<sets, filters, funcs>>
    /\ UNCHANGED <<fnVars, dslVars, fuzzyVars, dataVars, cacheVars>>

(***************************************************************************)
(* SpecFn: a caller builds one Filters value, wrapping it in Not and Or,   *)
(* and compiles it with to_fn.                                             *)
(***************************************************************************)
LeafFilters ==
    {FAttack(ord, n) : ord \in QueryOrder, n \in 0..MaxN}
    \cup {FHealth(ord, n) : ord \in QueryOrder, n \in 0..MaxN}
    \cup {FSpAtk("MOX"), FStrAtk("?"), FRarity("RARE")}
    \cup {FExtra(CostType(t)) : t \in SUBSET {"BLOOD", "BONE", "ENERGY", "MOX"}}
    \cup {FCosts(None), FCosts(Some(Costs(0, 0, 0, {"O", "G"}, None))),
          FTraits(None), FTraits(Some(Traits_with_flags({"HARD"})))}

OrOperands == {FAttack("GreaterEqual", 1), FSpAtk("ANT")}

RECURSIVE Depth(_)
Depth(f) ==
    CASE f.kind = "Not" -> 1 + Depth(f.f)
      [] f.kind = "Or"  ->
            1 + (IF Depth(f.a) > Depth(f.b) THEN Depth(f.a) ELSE Depth(f.b))
      [] OTHER -> 0

RECURSIVE SubFilters(_)
SubFilters(f) ==
    CASE f.kind = "Not" -> {f} \cup SubFilters(f.f)
      [] f.kind = "Or"  -> {f} \cup SubFilters(f.a) \cup SubFilters(f.b)
      [] OTHER -> {f}

\* Filters::Not(Box::new(f))
WrapNot ==
    /\ Depth(flt) < FilterDepth
    /\ flt' = FNot(flt)
    /\ fn' = << >>
    /\ evals' = << >>
    /\ UNCHANGED <<engineVars, dslVars, fuzzyVars, dataVars, cacheVars>>

\* Filters::Or(Box::new(a), Box::new(b))
WrapOr ==
    /\ Depth(flt) < FilterDepth
    /\ \E g \in OrOperands : flt' = FOr(flt, g) \/ flt' = FOr(g, flt)
    /\ fn' = << >>
    /\ evals' = << >>
    /\ UNCHANGED <<engineVars, dslVars, fuzzyVars, dataVars, cacheVars>>

\* Filters::to_fn
Filters_to_fn ==
    /\ fn = << >>
    /\ fn' = to_fn(flt)
    /\ UNCHANGED <<flt, evals>>
    /\ UNCHANGED <<engineVars, dslVars, fuzzyVars, dataVars, cacheVars>>

call_alternating(f, c) == IF Len(evals) % 2 = 0 THEN f[c] ELSE ~ f[c]

\* f(c) on a FilterFn: Box<dyn Fn(&Card) -> bool>
call(f, c) == f[c]

CallFilters ==
    LeafFilters
    \cup {FNot(f) : f \in OrOperands}
    \cup {FOr(f, g) : f \in OrOperands, g \in OrOperands}

\* a caller applies the compiled closure to a card and keeps the answer
Call ==
    /\ fn # << >>
    /\ Len(evals) < MaxEvals
    /\ \E c \in CardU :
          evals' = Append(evals, [card |-> c, result |-> call(fn, c)])
    /\ UNCHANGED <<flt, fn>>
    /\ UNCHANGED <<engineVars, dslVars, fuzzyVars, dataVars, cacheVars>>

(***************************************************************************)
(* Text.  A &str is a sequence of characters, each a one-character string; *)
(* "U+20AC" stands for the euro sign, a symbol of three UTF-8 bytes.       *)
(***************************************************************************)
Letters ==
    {"a", "b", "c", "d", "e", "f", "g", "h", "i", "j", "k", "l", "m",
     "n", "o", "p", "q", "r", "s", "t", "u", "v", "w", "x", "y", "z"}
Digits == <<"0", "1", "2", "3", "4", "5", "6", "7", "8", "9">>
Quote == "\""

IsDigit(ch)  == ch \in Range(Digits)
\* the regex classes \s, \w and [-\w]
IsSpace(ch)  == ch = " "
IsWord(ch)   == ch \in Letters \/ IsDigit(ch) \/ ch = "_"
IsWordOrHyphen(ch) == IsWord(ch) \/ ch = "-"
\* the regex class [^\s\w"-]
IsSymbol(ch) == ~ IsSpace(ch) /\ ~ IsWord(ch) /\ ch # Quote /\ ch # "-"

\* char::len_utf8 and str::len
len_utf8(ch) == IF ch = "U+20AC" THEN 3 ELSE 1
RECURSIVE str_len(_)
str_len(s) == IF s = << >> THEN 0 ELSE len_utf8(Head(s)) + str_len(Tail(s))

DigitValue(ch) == (CHOOSE i \in 1..10 : Digits[i] = ch) - 1

RECURSIVE DigitsValue(_)
DigitsValue(s) ==
    IF s = << >> THEN 0
    ELSE 10 * DigitsValue(SubSeq(s, 1, Len(s) - 1)) + DigitValue(s[Len(s)])

\* str::parse::<isize>: an optional sign, then one digit or more.  No text of the
\* model is long enough to overflow an isize.
NoInt == [ok |-> FALSE, n |-> 0]
parse_isize(s) ==
    LET signed == s # << >> /\ Head(s) \in {"-", "+"}
        ds     == IF signed THEN Tail(s) ELSE s
    IN  IF ds = << >> \/ \E i \in 1..Len(ds) : ~ IsDigit(ds[i]) THEN NoInt
        ELSE [ok |-> TRUE,
              n  |-> IF signed /\ Head(s) = "-" THEN 0 - DigitsValue(ds)
                     ELSE DigitsValue(ds)]

RECURSIVE NatToStr(_)
NatToStr(n) ==
    IF n < 10 THEN << Digits[n + 1] >>
    ELSE Append(NatToStr(n \div 10), Digits[(n % 10) + 1])

\* isize::to_string
to_string(n) == IF n < 0 THEN << "-" >> \o NatToStr(0 - n) ELSE NatToStr(n)

(***************************************************************************)
(* Lexer (magpie_tutor/src/query/lexer.rs).                                *)
(***************************************************************************)
\* enum Token: a kind, and the payload of Num and Str
Tok(kind) == [kind |-> kind, num |-> 0, str |-> << >>]
TNum(n)   == [kind |-> "Num", num |-> n, str |-> << >>]
TStr(s)   == [kind |-> "Str", num |-> 0, str |-> s]

\* QUERY_REGEX = (?:"(.+)")|([-\w]+)|([^\s\w"-]*), searched at position i.  The
\* third alternative matches the empty string, so a match always starts at i.
\* Alternatives are tried in order; each quantifier is greedy, so "(.+)" runs to
\* the last quote of the text (no text of the model holds a line break).
ClosingQuotes(q, i) == {j \in (i + 2)..Len(q) : q[j] = Quote}

Max(S) == CHOOSE x \in S : \A y \in S : y <= x
Min(S) == CHOOSE x \in S : \A y \in S : x <= y

WordRunEnd(q, i) ==
    LET stops == {k \in i..Len(q) : ~ IsWordOrHyphen(q[k])}
    IN  IF stops = {} THEN Len(q) + 1 ELSE Min(stops)

SymRunEnd(q, i) ==
    LET stops == {k \in i..Len(q) : ~ IsSymbol(q[k])}
    IN  IF stops = {} THEN Len(q) + 1 ELSE Min(stops)

\* [group, text of the group, position after the match]
QUERY_REGEX(q, i) ==
    IF i <= Len(q) /\ q[i] = Quote /\ ClosingQuotes(q, i) # {}
    THEN LET j == Max(ClosingQuotes(q, i))
         IN  [grp |-> 1, text |-> SubSeq(q, i + 1, j - 1), end |-> j + 1]
    ELSE IF i <= Len(q) /\ IsWordOrHyphen(q[i])
    THEN [grp |-> 2, text |-> SubSeq(q, i, WordRunEnd(q, i) - 1),
          end |-> WordRunEnd(q, i)]
    ELSE [grp |-> 3, text |-> SubSeq(q, i, SymRunEnd(q, i) - 1),
          end |-> SymRunEnd(q, i)]

\* Regex::captures_iter, one call of next(): the search starts at position p; an
\* empty match that ends where the last reported match ended is not reported and
\* the search moves on by one character; after a reported empty match the next
\* search starts one character further.
NoCapture == [found |-> FALSE, grp |-> 0, text |-> << >>, pos |-> 0, last |-> 0]
RECURSIVE captures_iter_next(_, _, _)
captures_iter_next(q, p, last) ==
    IF p > Len(q) + 1 THEN NoCapture
    ELSE LET m == QUERY_REGEX(q, p)
         IN  IF m.end = p
             THEN IF last = p
                  THEN captures_iter_next(q, p + 1, last)
                  ELSE [found |-> TRUE, grp |-> 3, text |-> << >>,
                        pos |-> p + 1, last |-> p]
             ELSE [found |-> TRUE, grp |-> m.grp, text |-> m.text,
                   pos |-> m.end, last |-> m.end]

\* tokenize_query, the arm of a single word
word_token(sing) ==
    CASE sing \in {<<"n", "a", "m", "e">>, <<"n">>} -> Tok("Name")
      [] sing \in {<<"d", "e", "s", "c", "r", "i", "p", "t", "i", "o", "n">>, <<"d">>}
            -> Tok("Desc")
      [] sing \in {<<"r", "a", "r", "i", "t", "y">>, <<"r">>} -> Tok("Rarity")
      [] sing \in {<<"t", "e", "m", "p", "l", "e">>, <<"t", "p">>} -> Tok("Temple")
      [] sing \in {<<"t", "r", "i", "b", "e">>, <<"t", "b">>} -> Tok("Tribe")
      [] sing \in {<<"a", "t", "t", "a", "c", "k">>, <<"a">>} -> Tok("Attack")
      [] sing \in {<<"h", "e", "a", "l", "t", "h">>, <<"h">>} -> Tok("Health")
      [] sing \in {<<"s", "i", "g", "i", "l">>, <<"s">>} -> Tok("Sigil")
      [] sing \in {<<"s", "p", "a", "t", "k">>, <<"s", "p">>} -> Tok("SpAtk")
      [] sing \in {<<"c", "o", "s", "t">>, <<"c">>} -> Tok("Costs")
      [] sing \in {<<"c", "o", "s", "t", "t", "y", "p", "e">>, <<"c", "t">>}
            -> Tok("CostType")
      [] sing \in {<<"t", "r", "a", "i", "t">>, <<"t", "r">>} -> Tok("Trait")
      [] sing = <<"o", "r">> -> Tok("Or")
      [] OTHER -> IF parse_isize(sing).ok THEN TNum(parse_isize(sing).n)
                  ELSE TStr(sing)

\* match_sym.  Its result: Ok(tokens), Err(message naming sym), or no result at
\* all.  A run longer than one byte is split into characters and match_sym is
\* called on each; for a single character of several bytes that call is
\* match_sym on the same string again, without end, until the stack overflows.
SymOk(toks)  == [tag |-> "Ok", toks |-> toks, sym |-> << >>]
SymErr(sym)  == [tag |-> "Err", toks |-> << >>, sym |-> sym]
SymOverflow  == [tag |-> "Overflow", toks |-> << >>, sym |-> << >>]

RECURSIVE match_sym(_)
RECURSIVE match_sym_chars(_, _)
\* the for loop over sym.chars(), with the vector built so far
match_sym_chars(chars, vec) ==
    IF chars = << >> THEN SymOk(vec)
    ELSE LET r == match_sym(<< Head(chars) >>)
         IN  IF r.tag = "Ok"
             THEN match_sym_chars(Tail(chars), Append(vec, Head(r.toks)))
             ELSE r

match_sym(sym) ==
    CASE sym = << "(" >> -> SymOk(<< Tok("OpenParen") >>)
      [] sym = << ")" >> -> SymOk(<< Tok("CloseParen") >>)
      [] sym = << "!" >> -> SymOk(<< Tok("Not") >>)
      [] sym = << ":" >> -> SymOk(<< Tok("Colon") >>)
      [] sym = << "=" >> -> SymOk(<< Tok("Equal") >>)
      [] sym = << ">" >> -> SymOk(<< Tok("Greater") >>)
      [] sym = << "<" >> -> SymOk(<< Tok("Less") >>)
      [] sym = << ">", "=" >> -> SymOk(<< Tok("GreaterEq") >>)
      [] sym = << "<", "=" >> -> SymOk(<< Tok("LessEq") >>)
      [] OTHER ->
            IF str_len(sym) > 1
            THEN IF Len(sym) = 1 THEN SymOverflow
                 ELSE match_sym_chars(sym, << >>)
            ELSE SymErr(sym)

LexNone == [tag |-> "none", sym |-> << >>]

\* tokenize_query: one turn of the for loop over the captures
LexStep ==
    /\ pc = "lexing"
    /\ LET c == captures_iter_next(query, pos, last_match)
       IN  /\ c.found
           /\ pos' = c.pos
           /\ last_match' = c.last
           /\ CASE c.grp = 1 ->
                     /\ tokens' = Append(tokens, TStr(c.text))
                     /\ UNCHANGED <<pc, lexres>>
                [] c.grp = 2 ->
                     /\ tokens' = Append(tokens, word_token(c.text))
                     /\ UNCHANGED <<pc, lexres>>
                [] c.grp = 3 ->
                     LET r == match_sym(c.text)
                     IN  CASE r.tag = "Ok" ->
                                /\ tokens' = tokens \o r.toks
                                /\ UNCHANGED <<pc, lexres>>
                           [] r.tag = "Err" ->
                                /\ tokens' = << >>
                                /\ lexres' = [tag |-> "Err", sym |-> r.sym]
                                /\ pc' = "lexfail"
                           [] r.tag = "Overflow" ->
                                /\ tokens' = << >>
                                /\ lexres' = [tag |-> "Overflow", sym |-> << >>]
                                /\ pc' = "crashed"
    /\ UNCHANGED <<query, ast, compiled>>
    /\ UNCHANGED <<engineVars, fnVars, fuzzyVars, dataVars, cacheVars>>

\* tokenize_query: the captures are exhausted; Eof is pushed and Ok returned
LexEnd_no_eof ==
    /\ pc = "lexing"
    /\ ~ captures_iter_next(query, pos, last_match).found
    /\ lexres' = [tag |-> "Ok", sym |-> << >>]
    /\ pc' = "lexed"
    /\ UNCHANGED <<query, pos, last_match, tokens, ast, compiled>>
    /\ UNCHANGED <<engineVars, fnVars, fuzzyVars, dataVars, cacheVars>>

LexEnd ==
    /\ pc = "lexing"
    /\ ~ captures_iter_next(query, pos, last_match).found
    /\ tokens' = Append(tokens, Tok("Eof"))
    /\ lexres' = [tag |-> "Ok", sym |-> << >>]
    /\ pc' = "lexed"
    /\ UNCHANGED <<query, pos, last_match, ast, compiled>>
    /\ UNCHANGED <<engineVars, fnVars, fuzzyVars, dataVars, cacheVars>>

\* tokenize_query as a function of the text: the for loop over the captures
RECURSIVE tokenize_query_for(_, _, _, _)
tokenize_query_for(q, p, last, toks) ==
    LET c == captures_iter_next(q, p, last)
    IN  IF ~ c.found THEN [tag |-> "Ok", toks |-> Append(toks, Tok("Eof"))]
        ELSE CASE c.grp = 1 ->
                    tokenize_query_for(q, c.pos, c.last, Append(toks, TStr(c.text)))
               [] c.grp = 2 ->
                    tokenize_query_for(q, c.pos, c.last,
                                       Append(toks, word_token(c.text)))
               [] c.grp = 3 ->
                    LET r == match_sym(c.text)
                    IN  IF r.tag = "Ok"
                        THEN tokenize_query_for(q, c.pos, c.last, toks \o r.toks)
                        ELSE [tag |-> r.tag, toks |-> << >>]

tokenize_query(q) == tokenize_query_for(q, 1, 0, << >>)

(***************************************************************************)
(* SpecLex: a user types a query and tokenize_query runs on it.            *)
(***************************************************************************)
LexAlphabet == {"a", "1", "-", " ", Quote, "(", ">", "=", "#", "U+20AC"}

TypeChar ==
    /\ pc = "typing"
    /\ Len(query) < MaxQuery
    /\ \E ch \in LexAlphabet : query' = Append(query, ch)
    /\ UNCHANGED <<pc, pos, last_match, tokens, lexres, ast, compiled>>
    /\ UNCHANGED <<engineVars, fnVars, fuzzyVars, dataVars, cacheVars>>

\* the call tokenize_query(query)
Submit ==
    /\ pc = "typing"
    /\ pc' = "lexing"
    /\ UNCHANGED <<query, pos, last_match, tokens, lexres, ast, compiled>>
    /\ UNCHANGED <<engineVars, fnVars, fuzzyVars, dataVars, cacheVars>>

(***************************************************************************)
(* Parser (magpie_tutor/src/query/parser.rs).                              *)
(* A QueryParser is its token stack, reversed, the current token last.     *)
(* Beside it the model keeps `raised`: every ParseErr constructed so far,  *)
(* with the number of tokens left on the stack when it was constructed.    *)
(* A call returns Ok(keyword), Err(ParseErr), or panics (unwrap on None).  *)
(***************************************************************************)
KwStr(kind, s)     == [kind |-> kind, str |-> s]
KwCmp(kind, ord, n) == [kind |-> kind, ord |-> ord, n |-> n]
KwOr(a, b)         == [kind |-> "Or", a |-> a, b |-> b]
KwNot(f)           == [kind |-> "Not", f |-> f]
NoKw               == [kind |-> "none"]

InvalidKeyword(tk)     == [kind |-> "InvalidKeyword", expect |-> << >>, tk |-> tk]
ExpectToken(what, tk)  == [kind |-> "ExpectToken", expect |-> << what >>, tk |-> tk]
ExpectTokens(whats, tk) == [kind |-> "ExpectTokens", expect |-> whats, tk |-> tk]
NoErr                  == [kind |-> "none", expect |-> << >>, tk |-> Tok("Eof")]

POk(p, kw)  == [tag |-> "Ok", p |-> p, kw |-> kw, err |-> NoErr]
PPanic(p)   == [tag |-> "Panic", p |-> p, kw |-> NoKw, err |-> NoErr]
PErr(p, e)  ==
    [tag |-> "Err",
     p   |-> [p EXCEPT !.raised = Append(@, [err |-> e, left |-> Len(p.tokens)])],
     kw  |-> NoKw, err |-> e]

RECURSIVE Reverse(_)
Reverse(s) == IF s = << >> THEN << >> ELSE Append(Reverse(Tail(s)), Head(s))

\* QueryParser::new
QueryParser_new(toks) == [tokens |-> Reverse(toks), raised |-> << >>]

\* QueryParser::curr is tokens.last().unwrap(), QueryParser::next is
\* tokens.pop().unwrap(): both panic on an empty stack.
is_empty(p) == p.tokens = << >>
curr(p)     == p.tokens[Len(p.tokens)]
popped(p)   == [p EXCEPT !.tokens = SubSeq(@, 1, Len(@) - 1)]

\* QueryParser::expect_token
expect_token(p, what) ==
    IF is_empty(p) THEN PPanic(p)
    ELSE IF curr(p) = what THEN POk(popped(p), NoKw)
    ELSE PErr(popped(p), ExpectToken(what, curr(p)))

StrKeywordTokens ==
    {"Name", "Desc", "Rarity", "Temple", "Tribe", "Sigil", "SpAtk", "Costs",
     "CostType", "Trait"}
CmpKeywordTokens == {"Attack", "Health"}

\* QueryParser::parse_str_keyword
parse_str_keyword(p) ==
    IF is_empty(p) THEN PPanic(p)
    ELSE LET keyword == curr(p)
             colon   == expect_token(popped(p), Tok("Colon"))
         IN  IF colon.tag # "Ok" THEN colon
             ELSE IF is_empty(colon.p) THEN PPanic(colon.p)
             ELSE LET val == curr(colon.p)
                      p2  == popped(colon.p)
                  IN  CASE val.kind = "Num" ->
                              POk(p2, KwStr(keyword.kind, to_string(val.num)))
                        [] val.kind = "Str" ->
                              POk(p2, KwStr(keyword.kind, val.str))
                        [] OTHER ->
                              PErr(p2, ExpectTokens(<< TNum(0), TStr(<< >>) >>, val))

CmpTokens ==
    << Tok("Colon"), Tok("Equal"), Tok("Greater"), Tok("GreaterEq"),
       Tok("Less"), Tok("LessEq") >>

\* QueryParser::parse_cmp_keyword
parse_cmp_keyword_swapped(p) ==
    IF is_empty(p) THEN PPanic(p)
    ELSE LET keyword == curr(p)
             p1      == popped(p)
         IN  IF is_empty(p1) THEN PPanic(p1)
             ELSE LET op == curr(p1)
                      p2 == popped(p1)
                  IN  IF op.kind \notin
                            {"Colon", "Equal", "Greater", "GreaterEq", "Less", "LessEq"}
                      THEN PErr(p2, ExpectTokens(CmpTokens, op))
                      ELSE IF is_empty(p2) THEN PPanic(p2)
                      ELSE LET num == curr(p2)
                               p3  == popped(p2)
                               cmp ==
                                   CASE op.kind \in {"Colon", "Equal"} -> "Equal"
                                     [] op.kind = "Greater"   -> "Greater"
                                     [] op.kind = "GreaterEq" -> "Greater"
                                     [] op.kind = "Less"      -> "Less"
                                     [] op.kind = "LessEq"    -> "Less"
                           IN  IF num.kind = "Num"
                               THEN POk(p3, KwCmp(keyword.kind, cmp, num.num))
                               ELSE PErr(p3, ExpectToken(TNum(0), num))

parse_cmp_keyword(p) ==
    IF is_empty(p) THEN PPanic(p)
    ELSE LET keyword == curr(p)
             p1      == popped(p)
         IN  IF is_empty(p1) THEN PPanic(p1)
             ELSE LET op == curr(p1)
                      p2 == popped(p1)
                  IN  IF op.kind \notin
                            {"Colon", "Equal", "Greater", "GreaterEq", "Less", "LessEq"}
                      THEN PErr(p2, ExpectTokens(CmpTokens, op))
                      ELSE IF is_empty(p2) THEN PPanic(p2)
                      ELSE LET num == curr(p2)
                               p3  == popped(p2)
                               cmp ==
                                   CASE op.kind \in {"Colon", "Equal"} -> "Equal"
                                     [] op.kind = "Greater"   -> "Greater"
                                     [] op.kind = "GreaterEq" -> "GreaterEqual"
                                     [] op.kind = "Less"      -> "Less"
                                     [] op.kind = "LessEq"    -> "LessEqual"
                           IN  IF num.kind = "Num"
                               THEN POk(p3, KwCmp(keyword.kind, cmp, num.num))
                               ELSE PErr(p3, ExpectToken(TNum(0), num))

RECURSIVE parse_or(_)
RECURSIVE parse_or_while(_, _)
RECURSIVE parse_not(_)
RECURSIVE parse_keyword(_)

\* QueryParser::parse
parse(p) == parse_or(p)

parse_keyword_peek(p) ==
    IF is_empty(p) THEN PPanic(p)
    ELSE CASE curr(p).kind \in StrKeywordTokens -> parse_str_keyword(p)
           [] curr(p).kind \in CmpKeywordTokens -> parse_cmp_keyword(p)
           [] curr(p).kind = "OpenParen" ->
                LET t == parse(popped(p))
                IN  IF t.tag = "Panic" THEN t
                    ELSE LET close == expect_token(t.p, Tok("CloseParen"))
                         IN  IF close.tag = "Ok" THEN [t EXCEPT !.p = close.p]
                             ELSE close
           [] OTHER -> PErr(p, InvalidKeyword(curr(p)))

\* QueryParser::parse_keyword.  In the OpenParen arm the result t of parse() is
\* kept while expect_token(CloseParen)? runs, whether t is Ok or Err.
parse_keyword(p) ==
    IF is_empty(p) THEN PPanic(p)
    ELSE CASE curr(p).kind \in StrKeywordTokens -> parse_str_keyword(p)
           [] curr(p).kind \in CmpKeywordTokens -> parse_cmp_keyword(p)
           [] curr(p).kind = "OpenParen" ->
                LET t == parse(popped(p))
                IN  IF t.tag = "Panic" THEN t
                    ELSE LET close == expect_token(t.p, Tok("CloseParen"))
                         IN  IF close.tag = "Ok" THEN [t EXCEPT !.p = close.p]
                             ELSE close
           [] OTHER -> PErr(popped(p), InvalidKeyword(curr(p)))

\* QueryParser::parse_not
parse_not(p) ==
    IF is_empty(p) THEN PPanic(p)
    ELSE IF curr(p) # Tok("Not") THEN parse_keyword(p)
    ELSE LET r == parse_keyword(popped(p))
         IN  IF r.tag = "Ok" THEN POk(r.p, KwNot(r.kw)) ELSE r

RECURSIVE parse_or_while_right(_, _)
parse_or_while_right(p, left) ==
    IF is_empty(p) THEN PPanic(p)
    ELSE IF curr(p) = Tok("Or")
    THEN LET right == parse_or(popped(p))
         IN  IF right.tag = "Ok" THEN POk(right.p, KwOr(left, right.kw))
             ELSE right
    ELSE POk(p, left)

\* QueryParser::parse_or, the while loop with `left` so far
parse_or_while(p, left) ==
    IF is_empty(p) THEN PPanic(p)
    ELSE IF curr(p) = Tok("Or")
    THEN LET right == parse_not(popped(p))
         IN  IF right.tag = "Ok"
             THEN parse_or_while(right.p, KwOr(left, right.kw))
             ELSE right
    ELSE POk(p, left)

\* QueryParser::parse_or
parse_or(p) ==
    LET left == parse_not(p)
    IN  IF left.tag = "Ok" THEN parse_or_while(left.p, left.kw) ELSE left

\* QueryParser::gen_ast: Ok(keywords), Err(ParseErr) or a panic
GOk(p, kws) == [tag |-> "Ok", p |-> p, kws |-> kws, err |-> NoErr]
RECURSIVE gen_ast_while(_, _)
gen_ast_while(p, kws) ==
    IF is_empty(p) \/ curr(p) = Tok("Eof") THEN GOk(p, kws)
    ELSE LET r == parse(p)
         IN  IF r.tag = "Ok" THEN gen_ast_while(r.p, Append(kws, r.kw))
             ELSE [tag |-> r.tag, p |-> r.p, kws |-> << >>, err |-> r.err]

gen_ast(p) == gen_ast_while(p, << >>)

NoAst == [tag |-> "none", p |-> QueryParser_new(<< >>), kws |-> << >>, err |-> NoErr]

\* QueryParser::gen_ast_with(tokens)
GenAst ==
    /\ pc = "lexed"
    /\ ast' = gen_ast(QueryParser_new(tokens))
    /\ pc' = CASE ast'.tag = "Ok"    -> "parsed"
               [] ast'.tag = "Err"   -> "parsefail"
               [] ast'.tag = "Panic" -> "crashed"
    /\ UNCHANGED <<query, pos, last_match, tokens, lexres, compiled>>
    /\ UNCHANGED <<engineVars, fnVars, fuzzyVars, dataVars, cacheVars>>

(***************************************************************************)
(* Keyword compiler: impl TryFrom<Keyword> for Filters (parser.rs).        *)
(***************************************************************************)
FName(s)        == [kind |-> "Name", str |-> s]
FDescription(s) == [kind |-> "Description", str |-> s]
FTemple(t)      == [kind |-> "Temple", temple |-> t]
FTribe(s)       == [kind |-> "Tribe", str |-> s]
FSigil(s)       == [kind |-> "Sigil", str |-> s]

FtOk(f)    == [tag |-> "Ok", filter |-> f, msg |-> ""]
FtErr(msg) == [tag |-> "Err", filter |-> NoFilter, msg |-> msg]

\* the regex class [a-zA-Z]
IsAlpha(ch) ==
    \/ ch \in Letters
    \/ ch \in {"A", "B", "C", "D", "E", "F", "G", "H", "I", "J", "K", "L", "M",
               "N", "O", "P", "Q", "R", "S", "T", "U", "V", "W", "X", "Y", "Z"}

DigitRunEnd(s, i) ==
    LET stops == {k \in i..Len(s) : ~ IsDigit(s[k])}
    IN  IF stops = {} THEN Len(s) + 1 ELSE Min(stops)

\* COST_REGEX = (-?\d+)?([a-zA-Z]), matched at position i exactly.  Group 1 is
\* tried first: a sign if there is one, the whole run of digits, and then a
\* letter must follow; failing that the letter alone must stand at i.
NoCostMatch == [found |-> FALSE, count |-> NoInt, letter |-> "", end |-> 0]
COST_REGEX(s, i) ==
    LET d == IF i <= Len(s) /\ s[i] = "-" THEN i + 1 ELSE i
        e == DigitRunEnd(s, d)
    IN  IF e > d /\ e <= Len(s) /\ IsAlpha(s[e])
        THEN [found |-> TRUE, count |-> parse_isize(SubSeq(s, i, e - 1)),
              letter |-> s[e], end |-> e + 1]
        ELSE IF i <= Len(s) /\ IsAlpha(s[i])
        THEN [found |-> TRUE, count |-> NoInt, letter |-> s[i], end |-> i + 1]
        ELSE NoCostMatch

\* COST_REGEX.captures_iter(&str): the leftmost match from position i on, then
\* the matches after it; text that no match covers is passed over.
RECURSIVE cost_captures(_, _)
cost_captures(s, i) ==
    LET starts == {j \in i..Len(s) : COST_REGEX(s, j).found}
    IN  IF starts = {} THEN << >>
        ELSE LET m == COST_REGEX(s, Min(starts))
             IN  << m >> \o cost_captures(s, m.end)

\* the for loop of the Keyword::Costs arm over the captures, costs being the
\* value built so far
RECURSIVE costs_loop(_, _)
costs_loop_one_colour(caps, costs) ==
    IF caps = << >> THEN [tag |-> "Ok", costs |-> costs]
    ELSE LET count == IF Head(caps).count.ok THEN Head(caps).count.n ELSE 1
             ch    == Head(caps).letter
         IN  CASE ch = "b" -> costs_loop(Tail(caps), [costs EXCEPT !.blood = count])
               [] ch = "o" -> costs_loop(Tail(caps), [costs EXCEPT !.bone = count])
               [] ch = "e" -> costs_loop(Tail(caps), [costs EXCEPT !.energy = count])
               [] ch = "r" -> costs_loop(Tail(caps), [costs EXCEPT !.mox = {"O"}])
               [] ch = "g" -> costs_loop(Tail(caps), [costs EXCEPT !.mox = {"G"}])
               [] ch = "u" -> costs_loop(Tail(caps), [costs EXCEPT !.mox = {"B"}])
               [] ch = "y" -> costs_loop(Tail(caps), [costs EXCEPT !.mox = {"Y"}])
               [] OTHER -> [tag |-> "Err", costs |-> costs]

costs_loop(caps, costs) ==
    IF caps = << >> THEN [tag |-> "Ok", costs |-> costs]
    ELSE LET count == IF Head(caps).count.ok THEN Head(caps).count.n ELSE 1
             ch    == Head(caps).letter
             \* if let Some(ref mut c) = costs.mox_count { c.<field> = count }
             counted(field) ==
                 IF costs.mox_count = None THEN None
                 ELSE Some([costs.mox_count[1] EXCEPT ![field] = count])
         IN  CASE ch = "b" -> costs_loop(Tail(caps), [costs EXCEPT !.blood = count])
               [] ch = "o" -> costs_loop(Tail(caps), [costs EXCEPT !.bone = count])
               [] ch = "e" -> costs_loop(Tail(caps), [costs EXCEPT !.energy = count])
               [] ch = "r" ->
                    costs_loop(Tail(caps),
                        [costs EXCEPT !.mox = @ \cup {"O"}, !.mox_count = counted("r")])
               [] ch = "g" ->
                    costs_loop(Tail(caps),
                        [costs EXCEPT !.mox = @ \cup {"G"}, !.mox_count = counted("g")])
               [] ch = "u" ->
                    costs_loop(Tail(caps),
                        [costs EXCEPT !.mox = @ \cup {"B"}, !.mox_count = counted("b")])
               [] ch = "y" ->
                    costs_loop(Tail(caps),
                        [costs EXCEPT !.mox = @ \cup {"Y"}, !.mox_count = counted("y")])
               [] OTHER -> [tag |-> "Err", costs |-> costs]

\* the for loop of the Keyword::CostType arm over c.chars()
RECURSIVE cost_type_loop(_, _)
cost_type_loop(chars, t) ==
    IF chars = << >> THEN [tag |-> "Ok", t |-> t]
    ELSE CASE Head(chars) = "b" -> cost_type_loop(Tail(chars), t \cup {"BLOOD"})
           [] Head(chars) = "o" -> cost_type_loop(Tail(chars), t \cup {"BONE"})
           [] Head(chars) = "e" -> cost_type_loop(Tail(chars), t \cup {"ENERGY"})
           [] Head(chars) = "m" -> cost_type_loop(Tail(chars), t \cup {"MOX"})
           [] OTHER -> [tag |-> "Err", t |-> t]

\* str::split(','): the pieces between the commas, empty pieces included
RECURSIVE split(_, _)
split(s, sep) ==
    LET at == {k \in 1..Len(s) : s[k] = sep}
    IN  IF at = {} THEN << s >>
        ELSE << SubSeq(s, 1, Min(at) - 1) >>
             \o split(SubSeq(s, Min(at) + 1, Len(s)), sep)

RECURSIVE try_from(_)
try_from(value) ==
    CASE value.kind = "Name" -> FtOk(FName(value.str))
      [] value.kind = "Desc" -> FtOk(FDescription(value.str))
      [] value.kind = "Rarity" ->
            CASE value.str \in {<<"s", "i", "d", "e">>, <<"s">>} -> FtOk(FRarity("SIDE"))
              [] value.str \in {<<"c", "o", "m", "m", "o", "n">>, <<"c">>}
                    -> FtOk(FRarity("COMMON"))
              [] value.str \in {<<"u", "n", "c", "o", "m", "m", "o", "n">>, <<"u">>}
                    -> FtOk(FRarity("UNCOMMON"))
              [] value.str \in {<<"r", "a", "r", "e">>, <<"r">>} -> FtOk(FRarity("RARE"))
              [] value.str \in {<<"u", "n", "i", "q", "u", "e">>, <<"n">>}
                    -> FtOk(FRarity("UNIQUE"))
              [] OTHER -> FtErr("InvalidRarity")
      [] value.kind = "Temple" ->
            CASE value.str \in {<<"b", "e", "a", "s", "t">>, <<"b">>} -> FtOk(FTemple("BEAST"))
              [] value.str \in {<<"u", "n", "d", "e", "a", "d">>, <<"u">>}
                    -> FtOk(FTemple("UNDEAD"))
              [] value.str \in {<<"t", "e", "c", "h", "n", "o", "l", "o", "g", "y">>,
                                <<"t", "e", "c", "h">>, <<"t">>} -> FtOk(FTemple("TECH"))
              [] value.str \in {<<"m", "a", "g", "i", "c", "k">>, <<"m">>}
                    -> FtOk(FTemple("MAGICK"))
              [] value.str \in {<<"f", "o", "o", "l">>, <<"f">>} -> FtOk(FTemple("FOOL"))
              [] value.str \in {<<"a", "r", "t", "i", "s", "t", "r", "y">>, <<"a">>}
                    -> FtOk(FTemple("ARTISTRY"))
              [] OTHER -> FtErr("InvalidTemple")
      [] value.kind = "Tribe" -> FtOk(FTribe(value.str))
      [] value.kind = "Attack" -> FtOk(FAttack(value.ord, value.n))
      [] value.kind = "Health" -> FtOk(FHealth(value.ord, value.n))
      [] value.kind = "Sigil" -> FtOk(FSigil(value.str))
      [] value.kind = "SpAtk" ->
            CASE value.str = <<"m", "o", "x">> -> FtOk(FSpAtk("MOX"))
              [] value.str = <<"g", "r", "e", "e", "n">> -> FtOk(FSpAtk("GREEN_MOX"))
              [] value.str = <<"m", "i", "r", "r", "o", "r">> -> FtOk(FSpAtk("MIRROR"))
              [] value.str = <<"a", "n", "t">> -> FtOk(FSpAtk("ANT"))
              [] value.str = <<"b", "o", "n", "e">> -> FtOk(FSpAtk("BONE"))
              [] value.str = <<"b", "e", "l", "l">> -> FtOk(FSpAtk("BELL"))
              [] value.str = <<"c", "a", "r", "d">> -> FtOk(FSpAtk("CARD"))
              [] OTHER -> FtErr("InvalidSpAtk")
      [] value.kind = "Costs" ->
            LET r == costs_loop(cost_captures(value.str, 1), Costs_default)
            IN  IF r.tag = "Err" THEN FtErr("Invalid Cost")
                ELSE FtOk(FCosts(Some(r.costs)))
      [] value.kind = "CostType" ->
            LET r == cost_type_loop(value.str, {})
            IN  IF r.tag = "Err" THEN FtErr("Invalid Cost Type")
                ELSE FtOk(FExtra(CostType(r.t)))
      [] value.kind = "Trait" ->
            CASE value.str = <<"c", "o", "n", "d", "u", "c", "t", "i", "v", "e">>
                    -> FtOk(FTraits(Some(Traits_with_flags({"CONDUCTIVE"}))))
              [] value.str = <<"b", "a", "n">>
                    -> FtOk(FTraits(Some(Traits_with_flags({"BAN"}))))
              [] value.str = <<"t", "e", "r", "r", "a", "i", "n">>
                    -> FtOk(FTraits(Some(Traits_with_flags({"TERRAIN"}))))
              [] value.str = <<"h", "a", "r", "d">>
                    -> FtOk(FTraits(Some(Traits_with_flags({"HARD"}))))
              [] OTHER -> FtOk(FTraits(Some(Traits_with_string(split(value.str, ",")))))
      [] value.kind = "Or" ->
            LET a == try_from(value.a)
            IN  IF a.tag = "Err" THEN a
                ELSE LET b == try_from(value.b)
                     IN  IF b.tag = "Err" THEN b ELSE FtOk(FOr(a.filter, b.filter))
      [] value.kind = "Not" ->
            LET a == try_from(value.f)
            IN  IF a.tag = "Err" THEN a ELSE FtOk(FNot(a.filter))

\* Filters::try_from on each keyword gen_ast returned, in order
Compile ==
    /\ pc = "parsed"
    /\ compiled' = [i \in 1..Len(ast.kws) |-> try_from(ast.kws[i])]
    /\ pc' = "compiled"
    /\ UNCHANGED <<query, pos, last_match, tokens, lexres, ast>>
    /\ UNCHANGED <<engineVars, fnVars, fuzzyVars, dataVars, cacheVars>>

(***************************************************************************)
(* SpecParse: a caller pushes tokens, ends them with Eof, and parses.      *)
(***************************************************************************)
ParseTokens ==
    { Tok("OpenParen"), Tok("CloseParen"), Tok("Not"), Tok("Or"), Tok("Colon"),
      Tok("Greater"), Tok("Name"), Tok("Attack"), TNum(1), TStr(<<"x">>) }

PushToken ==
    /\ pc = "tokens"
    /\ Len(tokens) < MaxTokens
    /\ \E t \in ParseTokens : tokens' = Append(tokens, t)
    /\ UNCHANGED <<query, pc, pos, last_match, lexres, ast, compiled>>
    /\ UNCHANGED <<engineVars, fnVars, fuzzyVars, dataVars, cacheVars>>

PushEof ==
    /\ pc = "tokens"
    /\ tokens' = Append(tokens, Tok("Eof"))
    /\ pc' = "lexed"
    /\ UNCHANGED <<query, pos, last_match, lexres, ast, compiled>>
    /\ UNCHANGED <<engineVars, fnVars, fuzzyVars, dataVars, cacheVars>>

(***************************************************************************)
(* SpecDsl: the whole pipeline on numeric, quoted and trait queries.       *)
(***************************************************************************)
FieldWords ==
    { <<"a", "t", "t", "a", "c", "k">>, <<"a">>,
      <<"h", "e", "a", "l", "t", "h">>, <<"h">> }
OpWords == { <<":">>, <<"=">>, <<">">>, <<"<">>, <<">", "=">>, <<"<", "=">> }
Numbers == (0 - MaxNum)..MaxNum
Gap(spaced) == IF spaced THEN << " " >> ELSE << >>

NumericQuery(fw, op, n, spaced) ==
    fw \o Gap(spaced) \o op \o Gap(spaced) \o to_string(n)

\* the queries `trait:"text"` and `trait:"text" or trait:"text"`, and the
\* queries `trait:word` and `!trait:word`
TraitWords == { <<"t", "r", "a", "i", "t">>, <<"t", "r">> }
QuotedTexts == { <<"x">>, <<"x", ",", "y">>, <<"x", " ", "y">> }

QuotedQuery(fw, s) == fw \o << ":", Quote >> \o s \o << Quote >>
QuotedOrQuery(fw, s1, s2) ==
    QuotedQuery(fw, s1) \o << " ", "o", "r", " " >> \o QuotedQuery(fw, s2)

TraitLiterals == { <<"h", "a", "r", "d">>, <<"b", "a", "n">>, <<"x">> }
TraitQuery(neg, fw, lit) ==
    (IF neg THEN << "!" >> ELSE << >>) \o fw \o << ":" >> \o lit

\* the queries `t1 or t2 or t3`, `!t1 or t2` and `!(t1 or t2)` on numeric terms
BoolTerms ==
    { NumericQuery(<<"a">>, <<">">>, 1, FALSE),
      NumericQuery(<<"h">>, <<"<">>, 2, FALSE),
      NumericQuery(<<"a">>, <<"=">>, 0, FALSE) }
OrWord == << " ", "o", "r", " " >>
OrChainQuery(t1, t2, t3) == t1 \o OrWord \o t2 \o OrWord \o t3
NotOrQuery(t1, t2) == << "!" >> \o t1 \o OrWord \o t2
NotParenQuery(t1, t2) == << "!", "(" >> \o t1 \o OrWord \o t2 \o << ")" >>

\* the queries `rarity:code` and `temple:code` on the codes try_from accepts
RarityCodes ==
    { <<"s", "i", "d", "e">>, <<"s">>, <<"c", "o", "m", "m", "o", "n">>, <<"c">>,
      <<"u", "n", "c", "o", "m", "m", "o", "n">>, <<"u">>,
      <<"r", "a", "r", "e">>, <<"r">>, <<"u", "n", "i", "q", "u", "e">>, <<"n">> }
TempleCodes ==
    { <<"b", "e", "a", "s", "t">>, <<"b">>, <<"u", "n", "d", "e", "a", "d">>, <<"u">>,
      <<"t", "e", "c", "h", "n", "o", "l", "o", "g", "y">>, <<"t", "e", "c", "h">>,
      <<"t">>, <<"m", "a", "g", "i", "c", "k">>, <<"m">>, <<"f", "o", "o", "l">>,
      <<"f">>, <<"a", "r", "t", "i", "s", "t", "r", "y">>, <<"a">> }
EnumQuery(fw, lit) == fw \o << ":" >> \o lit

DslQueries ==
    { NumericQuery(fw, op, n, spaced) :
        fw \in FieldWords, op \in OpWords, n \in Numbers, spaced \in BOOLEAN }
    \cup { OrChainQuery(t1, t2, t3) :
              t1 \in BoolTerms, t2 \in BoolTerms, t3 \in BoolTerms }
    \cup { NotOrQuery(t1, t2) : t1 \in BoolTerms, t2 \in BoolTerms }
    \cup { NotParenQuery(t1, t2) : t1 \in BoolTerms, t2 \in BoolTerms }
    \cup { EnumQuery(<<"r", "a", "r", "i", "t", "y">>, lit) : lit \in RarityCodes }
    \cup { EnumQuery(<<"t", "e", "m", "p", "l", "e">>, lit) : lit \in TempleCodes }
    \cup { QuotedQuery(fw, s) : fw \in TraitWords, s \in QuotedTexts }
    \cup { QuotedOrQuery(fw, s1, s2) :
              fw \in TraitWords, s1 \in QuotedTexts, s2 \in QuotedTexts }
    \cup { TraitQuery(neg, fw, lit) :
              neg \in BOOLEAN, fw \in TraitWords, lit \in TraitLiterals }

(***************************************************************************)
(* SpecKw: a caller holds one keyword of a string field and compiles it.   *)
(***************************************************************************)
CostAlphabet == {"2", "3", "-", "b", "o", "r", "g", "x", " "}
CostTypeAlphabet == {"b", "o", "e", "m", "x"}
EnumFields == {"Rarity", "Temple", "SpAtk"}
EnumLiterals ==
    { <<"r", "a", "r", "e">>, <<"b">>, <<"m", "o", "x">>,
      <<"z", "z", "z">>, <<"q", "q", "q">>, << >> }

KwInputs ==
    { KwStr("Costs", t) : t \in SeqsUpTo(CostAlphabet, MaxCost) }
    \cup { KwStr("CostType", t) : t \in SeqsUpTo(CostTypeAlphabet, MaxN) }
    \cup { KwStr(k, t) : k \in EnumFields, t \in EnumLiterals }

(***************************************************************************)
(* Fuzzy matcher (magpie_tutor/src/fuzzy.rs).                              *)
(* An f32 score is a fraction [num, den] with den > 0: every score of the  *)
(* model is a quotient of two small integers, which f32 division orders    *)
(* and equates as the fractions themselves.                                *)
(***************************************************************************)
Frac(n, d) == [num |-> n, den |-> d]
FracGeq(a, b) == a.num * b.den >= b.num * a.den
FracGt(a, b)  == a.num * b.den > b.num * a.den
FracEq(a, b)  == a.num * b.den = b.num * a.den

\* str::to_lowercase, on the letters the model uses
to_lowercase(s) ==
    [i \in 1..Len(s) |-> CASE s[i] = "A" -> "a" [] s[i] = "B" -> "b" [] OTHER -> s[i]]

\* lev, the inner for loop over string1.chars(): dist[k] is prev_dist[k - 1]
RECURSIVE lev_cols(_, _, _, _, _)
lev_cols(string1, c2, col, dist, prev_substitution_cost) ==
    IF col > Len(string1) THEN dist
    ELSE LET deletion_cost     == dist[col] + 1
             insertion_cost    == dist[col + 1] + 1
             substitution_cost == IF string1[col] = c2 THEN prev_substitution_cost
                                  ELSE prev_substitution_cost + 1
         IN  lev_cols(string1, c2, col + 1,
                      [dist EXCEPT ![col + 1] =
                          Min({substitution_cost, deletion_cost, insertion_cost})],
                      dist[col + 1])

\* lev, the outer for loop over string2.chars()
RECURSIVE lev_rows(_, _, _, _)
lev_rows(string1, string2, row, dist) ==
    IF row > Len(string2) THEN dist
    ELSE lev_rows(string1, string2, row + 1,
                  lev_cols(string1, string2[row], 1, [dist EXCEPT ![1] = row], dist[1]))

\* lev: the normalised similarity, or string2.len() when string1 is empty
lev(string1, string2, thr) ==
    IF string1 = << >> THEN Frac(str_len(string2), 1)
    ELSE LET l1        == str_len(string1)
             prev_dist == lev_rows(string1, string2, 1, [k \in 1..(l1 + 1) |-> k - 1])
             max       == Max({str_len(string1), str_len(string2)})
             t         == Frac(max - prev_dist[l1 + 1], max)
         IN  IF FracGeq(t, thr) THEN t ELSE Frac(0, 1)

\* struct FuzzyRes; data is the index in vec of the item borrowed
FuzzyRes(rank, data) == [rank |-> rank, data |-> data]

\* fuzzy_best, the for loop over vec from item i on, best being the value so far
RECURSIVE fuzzy_best_first(_, _, _, _, _)
fuzzy_best_first(val, v, thr, i, best) ==
    IF i > Len(v) THEN best
    ELSE LET r == lev(to_lowercase(v[i]), to_lowercase(val), thr)
         IN  fuzzy_best_first(val, v, thr, i + 1,
                 IF best # None /\ FracGt(r, best[1].rank) THEN Some(FuzzyRes(r, i))
                 ELSE IF best # None THEN best
                 ELSE Some(FuzzyRes(r, i)))

RECURSIVE fuzzy_best_loop(_, _, _, _, _)
fuzzy_best_loop(val, v, thr, i, best) ==
    IF i > Len(v) THEN best
    ELSE LET r == lev(to_lowercase(v[i]), to_lowercase(val), thr)
         IN  fuzzy_best_loop(val, v, thr, i + 1,
                 IF best # None /\ FracGeq(r, best[1].rank) THEN Some(FuzzyRes(r, i))
                 ELSE IF best # None THEN best
                 ELSE Some(FuzzyRes(r, i)))

NoFuzzy == [returned |-> FALSE, best |-> None]

\* the call fuzzy_best(value, vec, threshold, f)
fuzzy_best ==
    /\ ~ fres.returned
    /\ fres' = [returned |-> TRUE,
                best |-> fuzzy_best_loop(search_term, candidates, threshold, 1, None)]
    /\ UNCHANGED <<search_term, candidates, threshold>>
    /\ UNCHANGED <<engineVars, fnVars, dslVars, dataVars, cacheVars>>

(***************************************************************************)
(* SpecFuzzy: a caller collects the items of a set and calls fuzzy_best.   *)
(***************************************************************************)
FuzzyNames ==
    { << >>, <<"a">>, <<"b">>, <<"A", "b">>, <<"b", "a">>, <<"a", "b", "b">> }
FuzzyValues == SeqsUpTo({"a", "b"}, MaxValue)
Thresholds == { Frac(0, 1), Frac(1, 2), Frac(1, 1) }

\* set.cards.iter().collect(), one item at a time
CollectItem ==
    /\ ~ fres.returned
    /\ Len(candidates) < MaxCand
    /\ \E name \in FuzzyNames : candidates' = Append(candidates, name)
    /\ UNCHANGED <<search_term, threshold, fres>>
    /\ UNCHANGED <<engineVars, fnVars, dslVars, dataVars, cacheVars>>

(***************************************************************************)
(* SetCode (magpie_engine/src/data/sets.rs).  "U+037E" stands for the      *)
(* greek question mark, a character of two UTF-8 bytes.                    *)
(***************************************************************************)
CodeAlphabet == {"A", "b", "1", "U+037E", "U+20AC"}

\* str::as_bytes: the UTF-8 encoding of the text
RECURSIVE as_bytes(_)
as_bytes(s) ==
    IF s = << >> THEN << >>
    ELSE (CASE Head(s) = "A" -> << 65 >>
            [] Head(s) = "b" -> << 98 >>
            [] Head(s) = "1" -> << 49 >>
            [] Head(s) = "U+037E" -> << 205, 190 >>
            [] Head(s) = "U+20AC" -> << 226, 130, 172 >>)
         \o as_bytes(Tail(s))

\* <[u8]>::is_ascii
is_ascii(bytes) == \A i \in 1..Len(bytes) : bytes[i] < 128

SetCode_new_any_bytes(code_) ==
    LET bytes == as_bytes(code_)
    IN  IF Len(bytes) = 3 THEN Some(bytes) ELSE None

\* SetCode::new
SetCode_new(code_) ==
    LET bytes == as_bytes(code_)
    IN  IF Len(bytes) = 3 /\ is_ascii(bytes) THEN Some(bytes) ELSE None

NoSetCode == [returned |-> FALSE, value |-> None]

\* the caller writes the text of the code
TypeCode ==
    /\ ~ setcode.returned
    /\ Len(code) < MaxCode
    /\ \E ch \in CodeAlphabet : code' = Append(code, ch)
    /\ UNCHANGED <<setcode, sheet, fetched>>
    /\ UNCHANGED <<engineVars, fnVars, dslVars, fuzzyVars, cacheVars>>

\* let c = SetCode::new(code)
SetCode_new_call ==
    /\ ~ setcode.returned
    /\ setcode' = [returned |-> TRUE, value |-> SetCode_new(code)]
    /\ UNCHANGED <<code, sheet, fetched>>
    /\ UNCHANGED <<engineVars, fnVars, dslVars, fuzzyVars, cacheVars>>

(***************************************************************************)
(* The fetchers (magpie_engine/src/fetch/aug.rs, desc.rs, cti.rs).  The     *)
(* source data is the sigil table (name -> text) and, for each card, the   *)
(* names its sigils column holds once split; the other columns do not bear *)
(* on the look up table.                                                   *)
(***************************************************************************)
SigilNames == {"Airborne", "Fledgling"}
SigilText(name) == IF name = "Airborne" THEN "flies" ELSE "grows"
CardSigilNames == SigilNames \cup {"Typo"}

Sheets ==
    [sigils : {[n \in S |-> SigilText(n)] : S \in SUBSET SigilNames},
     cards  : SeqsUpTo(SeqsUpTo(CardSigilNames, MaxSigils), MaxCards)]

NoSheet == [sigils |-> << >>, cards |-> << >>]
NoSet == [by |-> "none", cards |-> << >>, sigils_description |-> << >>]

\* HashMap::insert and HashMap::contains_key
insert(h, k, v) == [x \in DOMAIN h \cup {k} |-> IF x = k THEN v ELSE h[x]]
contains_key(h, k) == k \in DOMAIN h

\* the sigils field of a card of fetch_aug_set and of fetch_desc_set
card_sigils(column, sigils_description) ==
    [i \in 1..Len(column) |->
        IF contains_key(sigils_description, column[i]) THEN column[i]
        ELSE "UNDEFINEDED SIGILS"]

\* the sigils field of a card of fetch_cti_set (each sigil_n holds a name)
cti_card_sigils(column, sigils_description) ==
    [i \in 1..Len(column) |->
        IF contains_key(sigils_description, column[i])
        THEN sigils_description[column[i]]
        ELSE "UNDEFINED SIGIL"]

fetch_aug_set ==
    /\ fetched.by = "none"
    /\ LET sigils_description ==
               insert(sheet.sigils, "UNDEFINDED SIGILS",
                      "THIS SIGIL IS NOT DEFINED BY THE SET")
       IN  fetched' = [by |-> "aug",
                       cards |-> [i \in 1..Len(sheet.cards) |->
                                    card_sigils(sheet.cards[i], sigils_description)],
                       sigils_description |-> sigils_description]
    /\ UNCHANGED <<code, setcode, sheet>>
    /\ UNCHANGED <<engineVars, fnVars, dslVars, fuzzyVars, cacheVars>>

fetch_desc_set ==
    /\ fetched.by = "none"
    /\ LET sigils_description == sheet.sigils
       IN  fetched' = [by |-> "desc",
                       cards |-> [i \in 1..Len(sheet.cards) |->
                                    card_sigils(sheet.cards[i], sigils_description)],
                       sigils_description |-> sigils_description]
    /\ UNCHANGED <<code, setcode, sheet>>
    /\ UNCHANGED <<engineVars, fnVars, dslVars, fuzzyVars, cacheVars>>

fetch_cti_set ==
    /\ fetched.by = "none"
    /\ LET sigils_description == sheet.sigils
       IN  fetched' = [by |-> "cti",
                       cards |-> [i \in 1..Len(sheet.cards) |->
                                    cti_card_sigils(sheet.cards[i], sigils_description)],
                       sigils_description |-> sigils_description]
    /\ UNCHANGED <<code, setcode, sheet>>
    /\ UNCHANGED <<engineVars, fnVars, dslVars, fuzzyVars, cacheVars>>

(***************************************************************************)
(* The portrait cache (magpie_tutor/src/search.rs).  A card is known here  *)
(* by its portrait, "" for a card without one; hash_card_url hashes the    *)
(* portrait, and distinct portraits are taken to have distinct hashes.     *)
(* Times are in one unit.                                                  *)
(***************************************************************************)
Portraits == {"", "stoat.png", "wolf.png"}
hash_card_url(card) == card

\* one pass of the `for card in ...` loop of process_search, for each card
RECURSIVE process_search_loop(_, _)
process_search_loop(cards, st) ==
    IF cards = << >> THEN st
    ELSE LET card  == Head(cards)
             hash  == hash_card_url(card)
             entry == st.cache[hash]
         IN  IF entry # None /\ now >= entry[1]
             THEN process_search_loop(Tail(cards),
                      [st EXCEPT !.embeds =
                          Append(@, [hash |-> hash, thumbnail |-> "cdn"])])
             ELSE LET filename == hash
                      generate ==
                          /\ card # ""
                          /\ \A i \in 1..Len(st.attachments) :
                                 st.attachments[i] # filename
                  IN  process_search_loop(Tail(cards),
                          [cache |-> [st.cache EXCEPT ![hash] = None],
                           embeds |-> Append(st.embeds,
                               [hash |-> hash,
                                thumbnail |-> IF generate THEN "attachment"
                                              ELSE "none"]),
                           attachments |-> IF generate
                                           THEN Append(st.attachments, filename)
                                           ELSE st.attachments])

\* process_search, for a message whose search terms find the cards `cards`
process_search ==
    /\ embeds = << >>
    /\ \E cards \in SeqsUpTo(Portraits, MaxReply) \ { << >> } :
          LET st == process_search_loop(cards,
                        [cache |-> cache, embeds |-> << >>, attachments |-> << >>])
          IN  /\ cache' = st.cache
              /\ embeds' = st.embeds
              /\ attachments' = st.attachments
    /\ UNCHANGED now
    /\ UNCHANGED <<engineVars, fnVars, dslVars, fuzzyVars, dataVars>>

\* update_cache on the message sent: each thumbnail link gives the hash and
\* the expire date of its attachment; a hash already cached is skipped
update_cache ==
    /\ embeds # << >>
    /\ \E expire_date \in (now + 1)..(MaxTime + 1) :
          cache' = [h \in Portraits |->
                      IF /\ \E i \in 1..Len(embeds) :
                               embeds[i].hash = h /\ embeds[i].thumbnail # "none"
                         /\ cache[h] = None
                      THEN Some(expire_date)
                      ELSE cache[h]]
    /\ embeds' = << >>
    /\ attachments' = << >>
    /\ UNCHANGED now
    /\ UNCHANGED <<engineVars, fnVars, dslVars, fuzzyVars, dataVars>>

\* current_epoch() grows
Tick ==
    /\ now < MaxTime
    /\ now' = now + 1
    /\ UNCHANGED <<cache, embeds, attachments>>
    /\ UNCHANGED <<engineVars, fnVars, dslVars, fuzzyVars, dataVars>>

(***************************************************************************)
(* The specifications.  Each leaves the variables of the others idle.      *)
(***************************************************************************)
FnIdle  == flt = NoFilter /\ fn = << >> /\ evals = << >>
DslIdle ==
    /\ query = << >> /\ pc = "idle" /\ pos = 1 /\ last_match = 0
    /\ tokens = << >> /\ lexres = LexNone /\ ast = NoAst /\ compiled = << >>
EngineIdle ==
    /\ sets = << >> /\ filters = << >> /\ funcs = << >>
    /\ bstate = "idle" /\ qres = NoQuery

FuzzyIdle ==
    /\ search_term = << >> /\ candidates = << >>
    /\ threshold = Frac(0, 1) /\ fres = NoFuzzy
DataIdle ==
    /\ code = << >> /\ setcode = NoSetCode
    /\ sheet = NoSheet /\ fetched = NoSet
CacheIdle ==
    /\ cache = << >> /\ now = 0 /\ embeds = << >> /\ attachments = << >>

Init ==
    /\ sets \in SeqsUpTo(SetLibrary, MaxSets)
    /\ filters = << >>
    /\ funcs = << >>
    /\ bstate = "none"
    /\ qres = NoQuery
    /\ FnIdle
    /\ DslIdle
    /\ FuzzyIdle
    /\ DataIdle
    /\ CacheIdle

Next ==
    \/ QueryBuilder_new
    \/ QueryBuilder_with_filters
    \/ QueryBuilder_add_filter
    \/ QueryBuilder_add_filter_mut
    \/ QueryBuilder_query

Spec == Init /\ [][Next]_vars

InitFn ==
    /\ flt \in LeafFilters
    /\ fn = << >>
    /\ evals = << >>
    /\ EngineIdle
    /\ DslIdle
    /\ FuzzyIdle
    /\ DataIdle
    /\ CacheIdle

NextFn == WrapNot \/ WrapOr \/ Filters_to_fn

SpecFn == InitFn /\ [][NextFn]_vars

InitLex ==
    /\ query = << >> /\ pc = "typing" /\ pos = 1 /\ last_match = 0
    /\ tokens = << >> /\ lexres = LexNone /\ ast = NoAst /\ compiled = << >>
    /\ EngineIdle
    /\ FnIdle
    /\ FuzzyIdle
    /\ DataIdle
    /\ CacheIdle

NextLex == TypeChar \/ Submit \/ LexStep \/ LexEnd

SpecLex == InitLex /\ [][NextLex]_vars

InitParse ==
    /\ query = << >> /\ pc = "tokens" /\ pos = 1 /\ last_match = 0
    /\ tokens = << >> /\ lexres = LexNone /\ ast = NoAst /\ compiled = << >>
    /\ EngineIdle
    /\ FnIdle
    /\ FuzzyIdle
    /\ DataIdle
    /\ CacheIdle

NextParse == PushToken \/ PushEof \/ GenAst \/ Compile

SpecParse == InitParse /\ [][NextParse]_vars

InitDsl ==
    /\ query \in DslQueries
    /\ pc = "lexing" /\ pos = 1 /\ last_match = 0
    /\ tokens = << >> /\ lexres = LexNone /\ ast = NoAst /\ compiled = << >>
    /\ EngineIdle
    /\ FnIdle
    /\ FuzzyIdle
    /\ DataIdle
    /\ CacheIdle

NextDsl == LexStep \/ LexEnd \/ GenAst \/ Compile

SpecDsl == InitDsl /\ [][NextDsl]_vars

InitKw ==
    /\ \E kw \in KwInputs :
          ast = GOk(QueryParser_new(<< Tok("Eof") >>), << kw >>)
    /\ pc = "parsed"
    /\ query = << >> /\ pos = 1 /\ last_match = 0
    /\ tokens = << >> /\ lexres = LexNone /\ compiled = << >>
    /\ EngineIdle
    /\ FnIdle
    /\ FuzzyIdle
    /\ DataIdle
    /\ CacheIdle

NextKw == Compile

SpecKw == InitKw /\ [][NextKw]_vars

InitFuzzy ==
    /\ search_term \in FuzzyValues
    /\ candidates = << >>
    /\ threshold \in Thresholds
    /\ fres = NoFuzzy
    /\ EngineIdle
    /\ FnIdle
    /\ DslIdle
    /\ DataIdle
    /\ CacheIdle

NextFuzzy == CollectItem \/ fuzzy_best

SpecFuzzy == InitFuzzy /\ [][NextFuzzy]_vars

InitSetCode ==
    /\ code = << >> /\ setcode = NoSetCode
    /\ sheet = NoSheet /\ fetched = NoSet
    /\ EngineIdle
    /\ FnIdle
    /\ DslIdle
    /\ FuzzyIdle
    /\ CacheIdle

NextSetCode == TypeCode \/ SetCode_new_call

SpecSetCode == InitSetCode /\ [][NextSetCode]_vars

InitFetch ==
    /\ sheet \in Sheets
    /\ fetched = NoSet
    /\ code = << >> /\ setcode = NoSetCode
    /\ EngineIdle
    /\ FnIdle
    /\ DslIdle
    /\ FuzzyIdle
    /\ CacheIdle

NextFetch == fetch_aug_set \/ fetch_desc_set \/ fetch_cti_set

SpecFetch == InitFetch /\ [][NextFetch]_vars

InitCall ==
    /\ flt \in CallFilters
    /\ fn = << >>
    /\ evals = << >>
    /\ EngineIdle
    /\ DslIdle
    /\ FuzzyIdle
    /\ DataIdle
    /\ CacheIdle

NextCall == Filters_to_fn \/ Call

SpecCall == InitCall /\ [][NextCall]_vars

InitCache ==
    /\ cache = [h \in Portraits |-> None]
    /\ now = 0
    /\ embeds = << >>
    /\ attachments = << >>
    /\ EngineIdle
    /\ FnIdle
    /\ DslIdle
    /\ FuzzyIdle
    /\ DataIdle

NextCache == process_search \/ update_cache \/ Tick

SpecCache == InitCache /\ [][NextCache]_vars

(***************************************************************************)
(* Claims on the filter algebra and the query builder.                     *)
(***************************************************************************)
ValidRefs == UNION {{<<i, j>> : j \in 1..Len(sets[i])} : i \in 1..Len(sets)}

RefBefore(r, q) == r[1] < q[1] \/ (r[1] = q[1] /\ r[2] < q[2])

AllPass(r) == \A k \in 1..Len(funcs) : funcs[k][CardAt(sets, r)]

\* C1: query returns exactly the cards for which every accumulated compiled
\* predicate is true, in set order then card order, each once, and returns the
\* accumulated descriptors unchanged.
C1_QueryExact ==
    bstate = "queried" =>
        /\ qres.filters = filters
        /\ \A i \in 1..Len(qres.cards) :
              qres.cards[i] \in ValidRefs /\ AllPass(qres.cards[i])
        /\ \A i, j \in 1..Len(qres.cards) :
              i < j => RefBefore(qres.cards[i], qres.cards[j])
        /\ \A r \in ValidRefs : AllPass(r) => r \in Range(qres.cards)

C1_Witness ==
    /\ bstate = "queried"
    /\ Len(sets) = 2 /\ sets[1] = SetAug /\ sets[2] = SetStd
    /\ Len(filters) = 2
    /\ Len(qres.cards) = 2
    /\ qres.cards[1][1] = 1 /\ qres.cards[2][1] = 2

\* C2: the cards of a builder holding [f1, f2] are the intersection of the cards
\* of a builder holding [f1] and of a builder holding [f2], over the same sets.
C2_ConjunctionLaw ==
    (bstate = "queried" /\ Len(filters) = 2) =>
        Range(qres.cards) =
            Range(query_cards(sets, << to_fn(filters[1]) >>))
            \cap Range(query_cards(sets, << to_fn(filters[2]) >>))

C2_Witness ==
    /\ bstate = "queried" /\ Len(filters) = 2
    /\ qres.cards # << >>
    /\ Range(qres.cards) # Range(query_cards(sets, << to_fn(filters[1]) >>))
    /\ Range(qres.cards) # Range(query_cards(sets, << to_fn(filters[2]) >>))

\* C3: the predicate compiled from Not(f) is the negation of the one compiled
\* from f, and the one compiled from Or(f1, f2) the disjunction of those
\* compiled from f1 and f2, on every card and at every nesting depth.
C3_Compositional ==
    fn # << >> =>
        /\ flt.kind = "Not" => \A c \in CardU : fn[c] = ~ to_fn(flt.f)[c]
        /\ flt.kind = "Or" =>
              \A c \in CardU : fn[c] = (to_fn(flt.a)[c] \/ to_fn(flt.b)[c])
        /\ \A g \in SubFilters(flt) : \A c \in CardU :
              /\ g.kind = "Not" => to_fn(g)[c] = ~ to_fn(g.f)[c]
              /\ g.kind = "Or" => to_fn(g)[c] = (to_fn(g.a)[c] \/ to_fn(g.b)[c])

C3_Witness ==
    /\ fn # << >>
    /\ flt.kind = "Not" /\ flt.f.kind = "Or"
    /\ \E c \in CardU : fn[c]
    /\ \E c \in CardU : ~ fn[c]

\* C4: Attack(ord, n) matches a card iff its attack is Num(a) and a stands in
\* relation ord to n; it matches no card with a special or free-text attack.
C4_AttackFilter ==
    (fn # << >> /\ flt.kind = "Attack") =>
        \A c \in CardU :
            /\ c.attack.tag = "Num" =>
                  fn[c] = \/ (flt.ord = "Greater" /\ c.attack.num > flt.n)
                          \/ (flt.ord = "GreaterEqual" /\ c.attack.num >= flt.n)
                          \/ (flt.ord = "Equal" /\ c.attack.num = flt.n)
                          \/ (flt.ord = "LessEqual" /\ c.attack.num <= flt.n)
                          \/ (flt.ord = "Less" /\ c.attack.num < flt.n)
            /\ c.attack.tag \in {"SpAtk", "Str"} => ~ fn[c]

C4_Witness ==
    /\ fn # << >> /\ flt = FAttack("LessEqual", 1)
    /\ \E c \in CardU : c.attack.tag = "Num" /\ c.attack.num = 1 /\ fn[c]
    /\ \E c \in CardU : c.attack.tag = "SpAtk" /\ ~ fn[c]

(***************************************************************************)
(* Claims on the query DSL.                                                *)
(***************************************************************************)
FieldKind(fw) ==
    IF fw \in {<<"a", "t", "t", "a", "c", "k">>, <<"a">>} THEN "Attack" ELSE "Health"

OpToken(op) ==
    CASE op = <<":">> -> "Colon"
      [] op = <<"=">> -> "Equal"
      [] op = <<">">> -> "Greater"
      [] op = <<"<">> -> "Less"
      [] op = <<">", "=">> -> "GreaterEq"
      [] op = <<"<", "=">> -> "LessEq"

OpOrder(op) ==
    CASE op \in {<<":">>, <<"=">>} -> "Equal"
      [] op = <<">">> -> "Greater"
      [] op = <<"<">> -> "Less"
      [] op = <<">", "=">> -> "GreaterEqual"
      [] op = <<"<", "=">> -> "LessEqual"

\* C5: for field in {attack, a, health, h}, op in {: = > < >= <=} and integer n,
\* `field op n` lexes to [Field, Op, Num(n), Eof], parses to the one keyword
\* Attack/Health(order, n) with : and = both Equal, and compiles to
\* Filters::Attack/Health(order, n).
C5_NumericRoundTrip ==
    \A fw \in FieldWords, op \in OpWords, n \in Numbers, spaced \in BOOLEAN :
        query = NumericQuery(fw, op, n, spaced) =>
            /\ pc \in {"lexing", "lexed", "parsed", "compiled"}
            /\ pc \in {"lexed", "parsed", "compiled"} =>
                  /\ lexres.tag = "Ok"
                  /\ tokens = << Tok(FieldKind(fw)), Tok(OpToken(op)), TNum(n),
                                 Tok("Eof") >>
            /\ pc \in {"parsed", "compiled"} =>
                  /\ ast.tag = "Ok"
                  /\ ast.kws = << KwCmp(FieldKind(fw), OpOrder(op), n) >>
            /\ pc = "compiled" =>
                  compiled =
                      << FtOk([kind |-> FieldKind(fw), ord |-> OpOrder(op), n |-> n]) >>

C5_Witness ==
    /\ pc = "compiled"
    /\ query = <<"h", "e", "a", "l", "t", "h", " ", "<", "=", " ", "-", "1", "0">>
    /\ compiled = << FtOk(FHealth("LessEqual", 0 - 10)) >>

ParserRan == pc \in {"parsed", "parsefail", "crashed", "compiled"}

\* C6: on every token sequence that ends with Eof, gen_ast returns Ok or Err and
\* never pops or peeks an empty token stack.
C6_NeverPanics == ParserRan => ast.tag \in {"Ok", "Err"}

\* C7: when a keyword is expected and the current token t is neither a field
\* token nor '(', gen_ast returns Err(InvalidKeyword(t)) with that token.
C7_InvalidKeywordReported ==
    ParserRan =>
        \A i \in 1..Len(ast.p.raised) :
            ast.p.raised[i].err.kind = "InvalidKeyword" =>
                ast.tag = "Err" /\ ast.err = ast.p.raised[i].err

\* C8: the ParseErr gen_ast returns is the first one raised, and no token is
\* consumed after it was raised.
C8_FirstErrorWins ==
    pc = "parsefail" =>
        /\ ast.err = ast.p.raised[1].err
        /\ Len(ast.p.tokens) = ast.p.raised[1].left

UnknownSymbol(ch) == IsSymbol(ch) /\ ch \notin {"(", ")", "!", ":", "=", ">", "<"}

LexerRan == pc \in {"lexed", "lexfail", "crashed"}

\* C9: on every input that holds an unrecognised symbol character,
\* tokenize_query terminates with Err, its message naming the symbol, and
\* returns no token list.
C9_UnknownSymbolIsErr ==
    (LexerRan /\ \E i \in 1..Len(query) : UnknownSymbol(query[i])) =>
        /\ pc = "lexfail"
        /\ lexres.tag = "Err"
        /\ \E k \in 1..Len(lexres.sym) : UnknownSymbol(lexres.sym[k])
        /\ tokens = << >>

\* C10: when tokenize_query returns Ok(tokens), tokens is not empty, its last
\* element is Eof, and Eof occurs nowhere else in it.
C10_EofTerminated ==
    lexres.tag = "Ok" =>
        /\ tokens # << >>
        /\ tokens[Len(tokens)] = Tok("Eof")
        /\ \A i \in 1..(Len(tokens) - 1) : tokens[i].kind # "Eof"

C10_Witness ==
    /\ lexres.tag = "Ok"
    /\ query = <<"a", ">", "=", "1">>
    /\ Len(tokens) = 4

\* C11: each double-quoted run of the query becomes its own Str token holding
\* the text between that run's two quotes: `trait:"s"` lexes to
\* [Trait, Colon, Str(s), Eof] and `trait:"s1" or trait:"s2"` to
\* [Trait, Colon, Str(s1), Or, Trait, Colon, Str(s2), Eof].
C11_QuotedRunsSeparate ==
    pc \notin {"idle", "lexing"} =>
        \A fw \in TraitWords, s1 \in QuotedTexts :
            /\ query = QuotedQuery(fw, s1) =>
                  /\ lexres.tag = "Ok"
                  /\ tokens = << Tok("Trait"), Tok("Colon"), TStr(s1), Tok("Eof") >>
            /\ \A s2 \in QuotedTexts :
                  query = QuotedOrQuery(fw, s1, s2) =>
                      /\ lexres.tag = "Ok"
                      /\ tokens = << Tok("Trait"), Tok("Colon"), TStr(s1), Tok("Or"),
                                     Tok("Trait"), Tok("Colon"), TStr(s2), Tok("Eof") >>

CompoundAt(i) == i < Len(query) /\ query[i] = ">" /\ query[i + 1] = "="

\* C12: in a query without quotes that lexes, every occurrence of >= is emitted
\* as one GreaterEq token, whatever symbols stand around it in its run, and
\* only the other > and = characters are emitted as Greater and Equal.
C12_CompoundInAnyRun ==
    (lexres.tag = "Ok" /\ Quote \notin Range(query)) =>
        /\ Cardinality({i \in 1..Len(tokens) : tokens[i].kind = "GreaterEq"})
              = Cardinality({i \in 1..Len(query) : CompoundAt(i)})
        /\ Cardinality({i \in 1..Len(tokens) : tokens[i].kind = "Greater"})
              = Cardinality({i \in 1..Len(query) :
                                query[i] = ">" /\ ~ CompoundAt(i)})

(***************************************************************************)
(* Claims on the fuzzy matcher.                                            *)
(***************************************************************************)
Score(i) == lev(to_lowercase(candidates[i]), to_lowercase(search_term), threshold)

Zero == Frac(0, 1)
One  == Frac(1, 1)

\* C13: fuzzy_best returns a candidate only if its score is strictly greater
\* than 0; when every candidate scores 0, and whenever the search term is empty,
\* it returns None, whether the candidate list is empty or not.
C13_BestIsPositive ==
    fres.returned =>
        /\ fres.best # None => FracGt(fres.best[1].rank, Zero)
        /\ (\A i \in 1..Len(candidates) : FracEq(Score(i), Zero)) => fres.best = None
        /\ search_term = << >> => fres.best = None

Maxima == {i \in 1..Len(candidates) :
              \A j \in 1..Len(candidates) : FracGeq(Score(i), Score(j))}

\* C14 as stated: when several candidates share the maximal score, fuzzy_best
\* returns the first of them in the order of the list.
C14_FirstOfTies ==
    (fres.returned /\ fres.best # None) => fres.best[1].data = Min(Maxima)

\* C14, amended: fuzzy_best returns None on an empty list and otherwise the
\* LAST candidate of maximal score in the order of the list, with that score
\* as rank.
C14_LastOfTies ==
    fres.returned =>
        IF candidates = << >> THEN fres.best = None
        ELSE /\ fres.best # None
             /\ fres.best[1].data = Max(Maxima)
             /\ FracEq(fres.best[1].rank, Score(Max(Maxima)))

C14_Witness ==
    /\ fres.returned
    /\ search_term = <<"a", "b">>
    /\ candidates = << <<"a">>, <<"b">> >>
    /\ threshold = Frac(1, 2)
    /\ FracEq(Score(1), Score(2)) /\ FracGt(Score(1), Zero)
    /\ fres.best = Some(FuzzyRes(Frac(1, 2), 2))

\* the edit distance of two strings, by its defining recursion
RECURSIVE edit_distance(_, _)
edit_distance(a, b) ==
    IF a = << >> THEN Len(b)
    ELSE IF b = << >> THEN Len(a)
    ELSE IF Head(a) = Head(b) THEN edit_distance(Tail(a), Tail(b))
    ELSE 1 + Min({edit_distance(Tail(a), b), edit_distance(a, Tail(b)),
                  edit_distance(Tail(a), Tail(b))})

\* C15: for every candidate string and search term, either of which may be
\* empty, and every threshold in [0,1], the score lev computes is 0, or it is
\* (max(len1,len2) - edit_distance) / max(len1,len2) and at least the
\* threshold; every score, and the rank fuzzy_best returns, lies in [0,1].
C15_ScoreNormalised ==
    fres.returned =>
        /\ \A i \in 1..Len(candidates) :
              LET a == to_lowercase(candidates[i])
                  b == to_lowercase(search_term)
                  m == Max({Len(a), Len(b)})
              IN  /\ \/ FracEq(Score(i), Zero)
                     \/ /\ m > 0
                        /\ FracEq(Score(i), Frac(m - edit_distance(a, b), m))
                        /\ FracGeq(Score(i), threshold)
                  /\ FracGeq(Score(i), Zero) /\ FracGeq(One, Score(i))
        /\ fres.best # None =>
              FracGeq(fres.best[1].rank, Zero) /\ FracGeq(One, fres.best[1].rank)

(***************************************************************************)
(* Claims on the keyword compiler.                                         *)
(***************************************************************************)
\* a cost text written as `[signed integer]letter` pairs
CostPairs ==
    { [n |-> n, letter |-> l] :
        n \in {None, Some(2), Some(3), Some(0 - 3), Some(23)},
        l \in {"b", "o", "e", "r", "g", "u", "y"} \cap CostAlphabet }

PairText(pr) == (IF pr.n = None THEN << >> ELSE to_string(pr.n[1])) \o << pr.letter >>

RECURSIVE PairsText(_)
PairsText(ps) == IF ps = << >> THEN << >> ELSE PairText(Head(ps)) \o PairsText(Tail(ps))

\* the texts of no pair, one pair and two pairs
CostPairTable ==
    { [text |-> PairsText(ps), ps |-> ps] :
        ps \in { << >> } \cup { << p >> : p \in CostPairs }
                \cup { << p, q >> : p \in CostPairs, q \in CostPairs } }

\* the amount the pairs give to the component of letter l: that of its last
\* pair, and the default 0 without one
Amount(ps, l) ==
    LET at == {i \in 1..Len(ps) : ps[i].letter = l}
    IN  IF at = {} THEN 0
        ELSE IF ps[Max(at)].n = None THEN 1 ELSE ps[Max(at)].n[1]

Colours(ps) ==
    {CASE ps[i].letter = "r" -> "O" [] ps[i].letter = "g" -> "G"
       [] ps[i].letter = "u" -> "B" [] ps[i].letter = "y" -> "Y" :
     i \in {j \in 1..Len(ps) : ps[j].letter \in {"r", "g", "u", "y"}}}

CostKeyword == ast.kws # << >> /\ ast.kws[1].kind = "Costs"

\* C16: a cost text made of `[signed integer]letter` pairs compiles to
\* Costs(Some(c)) where blood, bone and energy are the amounts of their letters
\* (1 when the integer is omitted, 0 without a pair), the mox flags are the
\* colours of the mox letters, and everything else is at its default; `3r2g`
\* gives exactly two mox colours and no other component.
C16_CostShorthand ==
    (pc = "compiled" /\ CostKeyword) =>
        /\ \A e \in CostPairTable :
              ast.kws[1].str = e.text =>
                  compiled =
                      << FtOk(FCosts(Some(
                            [Costs_default EXCEPT
                                !.blood = Amount(e.ps, "b"),
                                !.bone = Amount(e.ps, "o"),
                                !.energy = Amount(e.ps, "e"),
                                !.mox = Colours(e.ps)]))) >>
        /\ ast.kws[1].str = <<"3", "r", "2", "g">> =>
              /\ compiled[1].tag = "Ok"
              /\ compiled[1].filter.kind = "Costs"
              /\ Cardinality(compiled[1].filter.costs[1].mox) = 2
              /\ [compiled[1].filter.costs[1] EXCEPT !.mox = {}] = Costs_default

C16_Witness ==
    /\ pc = "compiled" /\ CostKeyword
    /\ ast.kws[1].str = <<"3", "r", "2", "g">>
    /\ compiled = << FtOk(FCosts(Some(Costs(0, 0, 0, {"O", "G"}, None)))) >>

\* a text that is entirely a concatenation of `[signed integer]letter` pairs
\* with letters from {b, o, e, r, g, u, y}
RECURSIVE WellFormedCost(_)
WellFormedCost(s) ==
    IF s = << >> THEN TRUE
    ELSE LET d == IF s[1] = "-" THEN 2 ELSE 1
             e == DigitRunEnd(s, d)
         IN  /\ e <= Len(s)
             /\ s[e] \in {"b", "o", "e", "r", "g", "u", "y"}
             /\ (s[1] = "-" => e > d)
             /\ WellFormedCost(SubSeq(s, e + 1, Len(s)))

\* C19: compiling Keyword::Costs(text) returns Err, and no Costs filter,
\* whenever text is not entirely a concatenation of `[signed integer]letter`
\* pairs with letters from {b, o, e, r, g, u, y}.
C19_MalformedCostIsErr ==
    (pc = "compiled" /\ CostKeyword /\ ~ WellFormedCost(ast.kws[1].str)) =>
        compiled[1].tag = "Err"

EnumKeyword == ast.kws # << >> /\ ast.kws[1].kind \in EnumFields

\* C18: when the compiler rejects a literal of rarity, temple or spatk, the
\* error it returns names the field and the rejected text: the rejection of
\* any other text for the same field is a different error value, and so is the
\* rejection of any text for another field.
C18_ErrorNamesLiteral ==
    (pc = "compiled" /\ EnumKeyword /\ compiled[1].tag = "Err") =>
        \A k \in EnumFields, t \in EnumLiterals :
            ( /\ <<k, t>> # <<ast.kws[1].kind, ast.kws[1].str>>
              /\ try_from(KwStr(k, t)).tag = "Err" )
                => try_from(KwStr(k, t)) # compiled[1]

\* a cost kind is present on a cost value
Present(kind, cs) ==
    CASE kind = "BLOOD"  -> cs.blood # 0
      [] kind = "BONE"   -> cs.bone # 0
      [] kind = "ENERGY" -> cs.energy # 0
      [] kind = "MOX"    -> cs.mox # {}

CostTypeFilter == fn # << >> /\ flt.kind = "Extra" /\ flt.ext.kind = "CostType"

Hard == <<"h", "a", "r", "d">>
HardTraits == Some([strings |-> None, flags |-> {"HARD"}])

\* C20: `trait:hard` compiles to Traits(Some({strings: None, flags: HARD})) and
\* matches exactly the cards whose traits value equals it; `!trait:hard` parses
\* to Not(Trait("hard")) and matches every other card, the cards without a
\* traits value among them.
C20_TraitsExact ==
    pc = "compiled" =>
        \A fw \in TraitWords :
            /\ query = TraitQuery(FALSE, fw, Hard) =>
                  /\ ast.kws = << KwStr("Trait", Hard) >>
                  /\ compiled = << FtOk(FTraits(HardTraits)) >>
                  /\ \A c \in CardU :
                        to_fn(compiled[1].filter)[c] = (c.traits = HardTraits)
            /\ query = TraitQuery(TRUE, fw, Hard) =>
                  /\ ast.kws = << KwNot(KwStr("Trait", Hard)) >>
                  /\ compiled = << FtOk(FNot(FTraits(HardTraits))) >>
                  /\ \A c \in CardU :
                        /\ to_fn(compiled[1].filter)[c] = (c.traits # HardTraits)
                        /\ c.traits = None => to_fn(compiled[1].filter)[c]

C20_Witness ==
    /\ pc = "compiled"
    /\ query = <<"!", "t", "r", "a", "i", "t", ":", "h", "a", "r", "d">>
    /\ compiled # << >> /\ compiled[1].tag = "Ok"
    /\ \E c \in CardU : c.traits = None /\ to_fn(compiled[1].filter)[c]
    /\ \E c \in CardU : c.traits = HardTraits /\ ~ to_fn(compiled[1].filter)[c]
    /\ \E c \in CardU :
          /\ c.traits # None /\ "HARD" \in c.traits[1].flags
          /\ to_fn(compiled[1].filter)[c]

(***************************************************************************)
(* Claims on the set data.                                                 *)
(***************************************************************************)
AsciiChars == {"A", "b", "1"}

\* C21: SetCode::new returns a code exactly when the text is three bytes
\* long and all of it is ASCII, that is when it is three ASCII characters;
\* a shorter or longer text, and any text holding a multi-byte character
\* (a 3-byte single character, three multi-byte characters), gives None.
C21_SetCodeThreeAscii ==
    setcode.returned =>
        (setcode.value # None
            <=> (Len(code) = 3 /\ \A i \in 1..Len(code) : code[i] \in AsciiChars))

\* SetCode::new was called on a text of exactly three bytes that is not ASCII
C21_Witness ==
    /\ setcode.returned
    /\ code \in {<< "U+20AC" >>, << "A", "U+037E" >>}
    /\ setcode.value = None

\* C22: in the Set returned by fetch_aug_set, fetch_desc_set and
\* fetch_cti_set every sigil of every card is a key of sigils_description
\* (a name absent from the fetched table having been replaced by a sentinel
\* that is itself a key).
C22_SigilsAreKeys ==
    fetched.by # "none" =>
        \A i \in 1..Len(fetched.cards) :
            \A j \in 1..Len(fetched.cards[i]) :
                contains_key(fetched.sigils_description, fetched.cards[i][j])

(***************************************************************************)
(* Claims on the evaluation of a compiled filter.                          *)
(***************************************************************************)
SameAnswer ==
    \A i \in 1..Len(evals) : \A j \in 1..Len(evals) :
        evals[i].card = evals[j].card => evals[i].result = evals[j].result

TermKw(t) ==
    CASE t = NumericQuery(<<"a">>, <<">">>, 1, FALSE) -> KwCmp("Attack", "Greater", 1)
      [] t = NumericQuery(<<"h">>, <<"<">>, 2, FALSE) -> KwCmp("Health", "Less", 2)
      [] t = NumericQuery(<<"a">>, <<"=">>, 0, FALSE) -> KwCmp("Attack", "Equal", 0)

Parsed(kw) ==
    /\ pc \in {"lexing", "lexed", "parsed", "compiled"}
    /\ pc \in {"parsed", "compiled"} => ast.tag = "Ok" /\ ast.kws = << kw >>

\* C24: `t1 or t2 or t3` parses to the left-nested Or(Or(t1, t2), t3);
\* `!` binds tighter than `or`, so `!a or b` parses to Or(Not(a), b), and
\* parentheses override that, so `!(a or b)` parses to Not(Or(a, b)).
C24_OrLeftNotTighter ==
    \A t1 \in BoolTerms, t2 \in BoolTerms, t3 \in BoolTerms :
        /\ query = OrChainQuery(t1, t2, t3) =>
              Parsed(KwOr(KwOr(TermKw(t1), TermKw(t2)), TermKw(t3)))
        /\ query = NotOrQuery(t1, t2) =>
              Parsed(KwOr(KwNot(TermKw(t1)), TermKw(t2)))
        /\ query = NotParenQuery(t1, t2) =>
              Parsed(KwNot(KwOr(TermKw(t1), TermKw(t2))))

\* `a>1 or h<2 or a=0` was parsed
C24_Witness ==
    /\ pc = "parsed"
    /\ query = <<"a", ">", "1", " ", "o", "r", " ", "h", "<", "2", " ", "o", "r", " ",
                 "a", "=", "0">>
    /\ ast.kws = << KwOr(KwOr(KwCmp("Attack", "Greater", 1), KwCmp("Health", "Less", 2)),
                         KwCmp("Attack", "Equal", 0)) >>

RarityOf(lit) ==
    CASE lit \in {<<"s", "i", "d", "e">>, <<"s">>} -> "SIDE"
      [] lit \in {<<"c", "o", "m", "m", "o", "n">>, <<"c">>} -> "COMMON"
      [] lit \in {<<"u", "n", "c", "o", "m", "m", "o", "n">>, <<"u">>} -> "UNCOMMON"
      [] lit \in {<<"r", "a", "r", "e">>, <<"r">>} -> "RARE"
      [] lit \in {<<"u", "n", "i", "q", "u", "e">>, <<"n">>} -> "UNIQUE"

TempleOf(lit) ==
    CASE lit \in {<<"b", "e", "a", "s", "t">>, <<"b">>} -> "BEAST"
      [] lit \in {<<"u", "n", "d", "e", "a", "d">>, <<"u">>} -> "UNDEAD"
      [] lit \in {<<"t", "e", "c", "h", "n", "o", "l", "o", "g", "y">>,
                  <<"t", "e", "c", "h">>, <<"t">>} -> "TECH"
      [] lit \in {<<"m", "a", "g", "i", "c", "k">>, <<"m">>} -> "MAGICK"
      [] lit \in {<<"f", "o", "o", "l">>, <<"f">>} -> "FOOL"
      [] lit \in {<<"a", "r", "t", "i", "s", "t", "r", "y">>, <<"a">>} -> "ARTISTRY"

Compiled(flt_) ==
    /\ pc \in {"lexing", "lexed", "parsed", "compiled"}
    /\ pc = "compiled" => compiled = << FtOk(flt_) >>

\* C25: every rarity code and every temple code the compiler accepts can be
\* written as a bare word: `rarity:code` and `temple:code` go through the
\* lexer and the parser and compile to the filter of that code.
C25_BareCodesCompile ==
    /\ \A lit \in RarityCodes :
          query = EnumQuery(<<"r", "a", "r", "i", "t", "y">>, lit) =>
              Compiled(FRarity(RarityOf(lit)))
    /\ \A lit \in TempleCodes :
          query = EnumQuery(<<"t", "e", "m", "p", "l", "e">>, lit) =>
              Compiled(FTemple(TempleOf(lit)))

(***************************************************************************)
(* Claims on the portrait cache.                                           *)
(***************************************************************************)
\* C26: process_search reuses a cache entry (puts its stored link in the
\* embed and generates no attachment) only while the current time is before
\* the entry's expire_date; an entry whose expire_date has passed is removed
\* from the cache and the portrait is generated again.
C26_ReuseOnlyFresh ==
    [][(embeds = << >> /\ embeds' # << >>) =>
          \A i \in 1..Len(embeds') :
              LET h == embeds'[i].hash
                  entry == cache[h]
              IN  /\ embeds'[i].thumbnail = "cdn" =>
                        entry # None /\ now < entry[1]
                  /\ (entry # None /\ now >= entry[1]) =>
                        /\ cache'[h] = None
                        /\ \E k \in 1..Len(attachments') : attachments'[k] = h
      ]_vars

(***************************************************************************)
(* Claims on white space in a query.                                       *)
(***************************************************************************)
Without(q, i) == SubSeq(q, 1, i - 1) \o SubSeq(q, i + 1, Len(q))

\* a space that leads the query, trails it, or stands next to another space
ExtraSpace(q, i) ==
    /\ q[i] = " "
    /\ i = 1 \/ i = Len(q) \/ q[i - 1] = " " \/ q[i + 1] = " "

\* C27: white space is insignificant to the lexer: when a query lexes to a
\* token sequence, the query with one more leading space, trailing space or
\* space beside another space lexes to the same sequence; and the empty query
\* lexes to [Eof].
C27_WhitespaceInsignificant ==
    (LexerRan /\ Quote \notin Range(query)) =>
        /\ query = << >> => lexres.tag = "Ok" /\ tokens = << Tok("Eof") >>
        /\ \A i \in 1..Len(query) :
              (ExtraSpace(query, i) /\ tokenize_query(Without(query, i)).tag = "Ok") =>
                  /\ lexres.tag = "Ok"
                  /\ tokens = tokenize_query(Without(query, i)).toks

(***************************************************************************)
(* Claims on the termination of the parser.                                *)
(***************************************************************************)
\* the parser on the last n tokens of the token vector
StackOf(n) == QueryParser_new(SubSeq(tokens, Len(tokens) - n + 1, Len(tokens)))

Consumes(r, n) == r.tag \in {"Ok", "Err"} => Len(r.p.tokens) < n

\* C28: on every token sequence that ends with Eof gen_ast terminates: a
\* call of parse_keyword, of parse_not and of parse on any non-empty rest of
\* the tokens that returns leaves strictly fewer tokens than it found, so
\* each pass of the gen_ast loop, each pass of the `or` loop and each level
\* of parentheses has fewer tokens to work on.
C28_ParserConsumes ==
    ParserRan =>
        /\ ast.tag \in {"Ok", "Err", "Panic"}
        /\ Len(ast.p.tokens) < Len(tokens) \/ tokens = << Tok("Eof") >>
        /\ \A n \in 1..Len(tokens) :
              /\ Consumes(parse_keyword(StackOf(n)), n)
              /\ Consumes(parse_not(StackOf(n)), n)
              /\ Consumes(parse(StackOf(n)), n)

\* gen_ast ran on `name:x or` and stopped in the `or` loop
C28_Witness ==
    /\ pc = "parsefail"
    /\ tokens = << Tok("Name"), Tok("Colon"), TStr(<<"x">>), Tok("Or"), Tok("Eof") >>
    /\ ast.p.tokens = << >>

(***************************************************************************)
(* Claims on the alignment of the builder's two lists.                     *)
(***************************************************************************)
Compilation(fs) == [i \in 1..Len(fs) |-> to_fn(fs[i])]

\* C29: once the builder is constructed, by new or by with_filters, and
\* after any add_filter / add_filter_mut calls, the descriptor list and the
\* predicate list have the same length and the i-th predicate is the
\* compilation of the i-th descriptor; so what query returns is determined
\* by the sets and the descriptor list alone, whichever way the list was
\* handed over.
C29_ListsAligned ==
    bstate \in {"built", "queried"} =>
        /\ Len(funcs) = Len(filters)
        /\ \A i \in 1..Len(filters) : funcs[i] = to_fn(filters[i])
        /\ bstate = "queried" =>
              qres = [cards |-> query_cards(sets, Compilation(filters)),
                      filters |-> filters]

\* a builder holding two different filters, not yet queried
C29_Witness ==
    /\ bstate = "built"
    /\ Len(filters) = 2 /\ Len(funcs) = 2
    /\ filters[1] # filters[2]
    /\ funcs[1] # funcs[2]

(***************************************************************************)
(* Claims on the mox counts of a compiled cost filter.                     *)
(***************************************************************************)
\* the cards whose cost has per-colour mox counts, and the cards of the
\* library given a populated cost extension
PopulatedCards ==
    {c \in CardU : c.costs # None /\ c.costs[1].mox_count # None}
    \cup {[c EXCEPT !.costs = Some([@[1] EXCEPT !.extra.max = 1])] :
             c \in {d \in CardU : d.costs # None}}

\* C30: a cost filter compiled from a cost text never carries per-colour
\* mox counts: its Costs value has mox_count absent and the default
\* extension, the integer before a mox letter changes nothing (`3r2g`
\* compiles as `rg` does), and the filter matches no card whose cost has
\* mox counts or a populated extension.
C30_NoMoxCounts ==
    (pc = "compiled" /\ CostKeyword /\ compiled[1].tag = "Ok") =>
        LET f == compiled[1].filter
        IN  /\ f.kind = "Costs" /\ f.costs # None
            /\ f.costs[1].mox_count = None
            /\ f.costs[1].extra =
                  [shattered_count |-> None, max |-> 0, link |-> 0, gold |-> 0]
            /\ ast.kws[1].str = <<"3", "r", "2", "g">> =>
                  compiled[1] = try_from(KwStr("Costs", <<"r", "g">>))
            /\ \A c \in PopulatedCards : ~ apply_filter(f, c)

\* `3r2g` was compiled: the filter matches Mox Module, which costs the two
\* colours without counts, and not Enigma, which costs 3 and 2 of them
C30_Witness ==
    /\ pc = "compiled" /\ CostKeyword
    /\ ast.kws[1].str = <<"3", "r", "2", "g">>
    /\ compiled[1].tag = "Ok"
    /\ \E c \in CardU : c.name = "Mox Module" /\ apply_filter(compiled[1].filter, c)
    /\ \E c \in CardU :
          /\ c.name = "Enigma" /\ c.costs[1].mox = {"O", "G"}
          /\ ~ apply_filter(compiled[1].filter, c)

====
